---- MODULE Spec2Model ----
(***************************************************************************)
(* Bank-statement ingestion and reconciliation of maxm/webledger.          *)
(*                                                                         *)
(* Three state machines share this module:                                 *)
(*   SpecAmount  one call of parseAmount on a cell text;                   *)
(*   SpecReader  row extraction of the statement readers (BROU sheet,      *)
(*               Itau sheet, CSV, Visa PDF lines), one row per step;       *)
(*   Spec        ReconcileBankStatement, one phase (totals, exact pass,    *)
(*               fuzzy pass, collection) per step, in its two source       *)
(*               versions.                                                 *)
(*                                                                         *)
(* Representation.  A Go string is a sequence of one-character strings.    *)
(* A time.Time (always midnight UTC in this code) is the number of days    *)
(* since 0001-01-01, so the zero time.Time is 0 and IsZero(t) is t = 0.    *)
(* A float64 produced by parseAmount is a decimal <<num, scale>> meaning   *)
(* num / 10^scale with trailing zeros stripped; reconciliation amounts are *)
(* integers counted in thousandths.  Arithmetic is exact: the inputs are   *)
(* chosen so that no score falls on a threshold, where float64 rounding    *)
(* could decide differently.                                               *)
(***************************************************************************)
EXTENDS Integers, Sequences, FiniteSets, TLC

VARIABLES
    \* ---- parseAmount call ----
    amountStr,      \* the argument of parseAmount
    normalized,     \* the local amountStr handed to strconv.ParseFloat
    amount,         \* the returned value
    amountPc,       \* "call" | "done" | "idle"
    \* ---- statement readers ----
    reader,         \* "brou" | "itau" | "csv" | "visa" | "none"
    readerPc,       \* "rows" | "returned" | "idle"
    rowIndex,       \* number of rows (lines) consumed so far
    row,            \* the row (line) consumed by the last step
    statement,      \* the BankStatement under construction (peso one for visa)
    dollarStatement,\* the second statement of the Visa reader
    \* ---- ReconcileBankStatement ----
    variant,        \* which source version runs: "part_003" | "part_004"
    bankStatement,  \* argument statement
    ledgerTransactions, \* argument ledgerTransactions
    pc,             \* "totals" | "exact" | "fuzzy" | "collect" | "done" | "idle"
    matchedBank,    \* set of matched bank indices
    matchedLedger,  \* set of matched ledger indices
    result,         \* the ReconciliationResult under construction
    \* ---- parseBrouDate call ----
    brouDateStr,    \* the argument of parseBrouDate
    brouDate,       \* [ok, date]: err == nil and the returned time.Time
    brouDatePc,     \* "call" | "done" | "idle"
    \* ---- ParseBrouStatement / ParseItauStatement / ParseVisaItauStatement ----
    sheetEntry,     \* "brou" | "itau" | "visa" | "none"
    sheetPc,        \* "open" | "sheet" | "header" | "rows" | "rowsDone" |
                    \* "pages" | "returned" | "panicked" | "idle"
    numSheets,      \* xlsFile.NumSheets(), pdfReader.NumPage()
    sheetIdx,       \* sheetIdx, pageNum
    maxRow,         \* int(sheet.MaxRow)
    sheetI,         \* the loop variable i of the two passes
    headerRow,      \* -1 until the header row is found
    dateCol,        \* -1 until the date column is found
    sheetUnit,      \* the row or page fetched by the last step
    extracted,      \* len(statement.Transactions) of the statement being built
    parseErr,       \* the returned error text, "" for nil
    keywordSeen,    \* some fetched row had a cell reading "fecha"
    headerSearched, \* the header search has run on some sheet
    \* ---- GenerateLedgerEntries ----
    configFile,     \* account_mappings.json: [found, DescriptionMappings]
    accountMappings,\* the package variable: [loaded, DescriptionMappings]
    unmatchedTransactions, \* argument unmatchedTransactions
    entries,        \* the returned entries
    entriesPc,      \* "call" | "done" | "idle"
    \* ---- QueryLedgerTransactions and the handler's use of it ----
    ledgerRun,      \* what the ledger command does: [parseError, exitError, lines]
    execOutput,     \* the string LedgerExec returns, as its lines
    queryTxs,       \* the transactions QueryLedgerTransactions returns
    queryErr,       \* the error QueryLedgerTransactions returns, "" for nil
    queryResponse,  \* "none" | "error" | "reconciled"
    queryPc,        \* "exec" | "parse" | "respond" | "responded" | "idle"
    \* ---- concurrent handleReconcileUpload requests ----
    reqPc,          \* per request: "start" | "check" | "load" | "scan" | "done"
    reqTodo,        \* per request: unmatched transactions still to resolve
    reqAccess,      \* per request: how it has used accountMappings so far,
                    \* "none" | "read" | "write"
    \* ---- ParseVisaItauStatement: the text runs of one page ----
    pageTexts,      \* texts: the runs [X, Y] of the page
    textIdx,        \* number of runs the grouping loop has consumed
    curLine,        \* currentLine: [y, texts]
    pageLines,      \* lines
    groupPc,        \* "sort" | "group" | "done" | "idle"
    \* ---- ParseLedgerTransactions ----
    fileLines,      \* strings.Split(ledgerContent, "\n")
    fileIdx,        \* number of lines the loop has consumed
    currentDate,    \* currentDate, 0 for the zero time
    currentDescription,
    entryStartLine,
    fileTxs,        \* transactions
    filePc          \* "lines" | "returned" | "idle"

amountVars == <<amountStr, normalized, amount, amountPc>>
readerVars == <<reader, readerPc, rowIndex, row, statement, dollarStatement>>
reconcileVars == <<variant, bankStatement, ledgerTransactions, pc,
                   matchedBank, matchedLedger, result>>
dateVars == <<brouDateStr, brouDate, brouDatePc>>
\* the groups other than the first three
sheetVars == <<sheetEntry, sheetPc, numSheets, sheetIdx, maxRow, sheetI,
               headerRow, dateCol, sheetUnit, extracted, parseErr,
               keywordSeen, headerSearched>>
entryVars == <<configFile, accountMappings, unmatchedTransactions, entries,
               entriesPc>>
queryVars == <<ledgerRun, execOutput, queryTxs, queryErr, queryResponse, queryPc>>
requestVars == <<reqPc, reqTodo, reqAccess>>
groupVars == <<pageTexts, textIdx, curLine, pageLines, groupPc>>
fileVars == <<fileLines, fileIdx, currentDate, currentDescription,
              entryStartLine, fileTxs, filePc>>
extVars == <<dateVars, sheetVars, entryVars, queryVars, requestVars, groupVars,
             fileVars>>
vars == <<amountVars, readerVars, reconcileVars, extVars>>

----------------------------------------------------------------------------
(* Strings                                                                 *)

Digits == {"0", "1", "2", "3", "4", "5", "6", "7", "8", "9"}

DigitVal(c) ==
    CASE c = "0" -> 0 [] c = "1" -> 1 [] c = "2" -> 2 [] c = "3" -> 3
      [] c = "4" -> 4 [] c = "5" -> 5 [] c = "6" -> 6 [] c = "7" -> 7
      [] c = "8" -> 8 [] c = "9" -> 9 [] OTHER -> 0

RECURSIVE Concat(_)
Concat(ss) == IF ss = <<>> THEN <<>> ELSE Head(ss) \o Concat(Tail(ss))

\* strings.Count(s, c) for a one-character c
RECURSIVE Count(_, _)
Count(s, c) ==
    IF s = <<>> THEN 0
    ELSE (IF Head(s) = c THEN 1 ELSE 0) + Count(Tail(s), c)

\* strings.ReplaceAll(s, c, r) for a one-character c and a string r
RECURSIVE ReplaceAll(_, _, _)
ReplaceAll(s, c, r) ==
    IF s = <<>> THEN <<>>
    ELSE (IF Head(s) = c THEN r ELSE <<Head(s)>>) \o ReplaceAll(Tail(s), c, r)

\* strings.ReplaceAll(s, "US", "")
RECURSIVE RemoveUS(_)
RemoveUS(s) ==
    IF Len(s) < 2 THEN s
    ELSE IF s[1] = "U" /\ s[2] = "S" THEN RemoveUS(Tail(Tail(s)))
    ELSE <<Head(s)>> \o RemoveUS(Tail(s))

RECURSIVE TrimLeft(_, _)
TrimLeft(s, cut) ==
    IF s # <<>> /\ Head(s) \in cut THEN TrimLeft(Tail(s), cut) ELSE s

RECURSIVE TrimRight(_, _)
TrimRight(s, cut) ==
    IF s # <<>> /\ s[Len(s)] \in cut
    THEN TrimRight(SubSeq(s, 1, Len(s) - 1), cut) ELSE s

\* strings.Trim(s, cutset)
Trim(s, cut) == TrimRight(TrimLeft(s, cut), cut)

\* strings.Contains(s, sub)
Contains(s, sub) ==
    \E i \in 0..(Len(s) - Len(sub)) : SubSeq(s, i + 1, i + Len(sub)) = sub

UpperLetters ==
    <<"A", "B", "C", "D", "E", "F", "G", "H", "I", "J", "K", "L", "M",
      "N", "O", "P", "Q", "R", "S", "T", "U", "V", "W", "X", "Y", "Z">>

LowerLetters ==
    <<"a", "b", "c", "d", "e", "f", "g", "h", "i", "j", "k", "l", "m",
      "n", "o", "p", "q", "r", "s", "t", "u", "v", "w", "x", "y", "z">>

\* strings.ToLower(s), strings.ToUpper(s) on ASCII letters
ToLower(s) ==
    [i \in 1..Len(s) |->
        IF \E k \in 1..26 : UpperLetters[k] = s[i]
        THEN LowerLetters[CHOOSE k \in 1..26 : UpperLetters[k] = s[i]]
        ELSE s[i]]

ToUpper(s) ==
    [i \in 1..Len(s) |->
        IF \E k \in 1..26 : LowerLetters[k] = s[i]
        THEN UpperLetters[CHOOSE k \in 1..26 : LowerLetters[k] = s[i]]
        ELSE s[i]]

\* strings.TrimSpace(s)
TrimSpace(s) == Trim(s, {" "})

HasPrefix(s, c) == s # <<>> /\ s[1] = c
HasSuffix(s, c) == s # <<>> /\ s[Len(s)] = c

----------------------------------------------------------------------------
(* Decimal values                                                          *)

Zero == <<0, 0>>

\* the canonical form of num / 10^scale
RECURSIVE Decimal(_, _)
Decimal(num, scale) ==
    IF scale > 0 /\ num % 10 = 0 THEN Decimal(num \div 10, scale - 1)
    ELSE <<num, scale>>

Neg(v) == <<0 - v[1], v[2]>>

RECURSIVE Atoi(_, _)
Atoi(s, acc) ==
    IF s = <<>> THEN acc ELSE Atoi(Tail(s), 10 * acc + DigitVal(Head(s)))

\* strconv.ParseFloat(s, 64), scanned left to right as readFloat does, on
\* the characters of the model's alphabet (sign, digits, one period; no
\* exponent, no "inf"/"nan", no hex): [ok, val].
RECURSIVE ScanFloat(_, _, _, _, _)
ScanFloat(s, mant, nd, sawdot, scale) ==
    IF s = <<>> THEN [ok |-> nd > 0, val |-> Decimal(mant, scale)]
    ELSE IF Head(s) = "." THEN
        IF sawdot THEN [ok |-> FALSE, val |-> Zero]
        ELSE ScanFloat(Tail(s), mant, nd, TRUE, scale)
    ELSE IF Head(s) \in Digits THEN
        ScanFloat(Tail(s), 10 * mant + DigitVal(Head(s)), nd + 1, sawdot,
                  IF sawdot THEN scale + 1 ELSE scale)
    ELSE [ok |-> FALSE, val |-> Zero]

ParseFloat(s) ==
    IF s = <<>> THEN [ok |-> FALSE, val |-> Zero]
    ELSE IF Head(s) = "+" THEN ScanFloat(Tail(s), 0, 0, FALSE, 0)
    ELSE IF Head(s) = "-" THEN
        LET r == ScanFloat(Tail(s), 0, 0, FALSE, 0)
        IN  [ok |-> r.ok, val |-> IF r.ok THEN Neg(r.val) ELSE Zero]
    ELSE ScanFloat(s, 0, 0, FALSE, 0)

----------------------------------------------------------------------------
(* parseAmount                                                             *)

\* lines 494-497: currency symbols and whitespace removed
StripCurrency(s) ==
    ReplaceAll(RemoveUS(ReplaceAll(TrimSpace(s), "$", <<>>)), " ", <<>>)

\* lines 504-520: thousands and decimal separators
NormalizeSeparators(s) ==
    LET dotCount == Count(s, ".")
        commaCount == Count(s, ",")
    IN  IF commaCount > 0 /\ dotCount > 0
            THEN ReplaceAll(ReplaceAll(s, ".", <<>>), ",", <<".">>)
        ELSE IF commaCount = 1 /\ dotCount = 0
            THEN ReplaceAll(s, ",", <<".">>)
        ELSE IF dotCount > 1 THEN ReplaceAll(s, ".", <<>>)
        ELSE IF commaCount > 1 THEN ReplaceAll(s, ",", <<>>)
        ELSE s

\* the parentheses taken off without the sign
ParenStripped(s) ==
    IF HasPrefix(s, "(") /\ HasSuffix(s, ")")
    THEN Trim(s, {"(", ")"})
    ELSE s

\* lines 523-525: parentheses as negative
ParenNegative(s) ==
    IF HasPrefix(s, "(") /\ HasSuffix(s, ")")
    THEN <<"-">> \o Trim(s, {"(", ")"})
    ELSE s

\* the string parseAmount hands to strconv.ParseFloat (line 527)
parseAmountText(s) == ParenNegative(NormalizeSeparators(StripCurrency(s)))

\* the leading digits of s
RECURSIVE DigitPrefix(_)
DigitPrefix(s) ==
    IF s = <<>> \/ Head(s) \notin Digits THEN <<>>
    ELSE <<Head(s)>> \o DigitPrefix(Tail(s))

\* parseAmount reading the number as fmt.Sscanf("%f") would: the leading
\* digits count and the rest of the text is ignored
parseAmountSscanf(s) ==
    IF s = <<>> \/ s = <<"-">> THEN Zero
    ELSE LET r == ParseFloat(DigitPrefix(parseAmountText(s)))
         IN  IF r.ok THEN r.val ELSE Zero

parseAmount(s) ==
    IF s = <<>> \/ s = <<"-">> THEN Zero
    ELSE LET r == ParseFloat(parseAmountText(s))
         IN  IF r.ok THEN r.val ELSE Zero

----------------------------------------------------------------------------
(* SpecAmount: one call of parseAmount                                     *)

MaxTokens == 5
MaxDigits == 8

\* the pieces cell texts are assembled from
AmountTokens ==
    {<<"1">>, <<"2", "3", "4">>, <<"5", "6">>, <<".">>, <<",">>,
     <<"(">>, <<")">>, <<"-">>, <<"$">>}

RECURSIVE DigitCount(_)
DigitCount(s) ==
    IF s = <<>> THEN 0
    ELSE (IF Head(s) \in Digits THEN 1 ELSE 0) + DigitCount(Tail(s))

TokenLists == UNION {[1..n -> AmountTokens] : n \in 0..MaxTokens}

AmountInputs == {s \in {Concat(ts) : ts \in TokenLists} : DigitCount(s) <= MaxDigits}

NoRow == [kind |-> "none"]

NoStatement == [Transactions |-> <<>>, StartDate |-> 0, EndDate |-> 0]

NoResult ==
    [Matches |-> <<>>, UnmatchedBank |-> <<>>, UnmatchedLedger |-> <<>>,
     AllBankTransactions |-> <<>>,
     TotalBankDebits |-> 0, TotalBankCredits |-> 0,
     TotalLedgerDebits |-> 0, TotalLedgerCredits |-> 0]

AmountIdle ==
    /\ amountStr = <<>> /\ normalized = <<>> /\ amount = Zero
    /\ amountPc = "idle"

ReaderIdle ==
    /\ reader = "none" /\ readerPc = "idle" /\ rowIndex = 0 /\ row = NoRow
    /\ statement = NoStatement /\ dollarStatement = NoStatement

ReconcileIdle ==
    /\ variant = "part_004" /\ bankStatement = NoStatement
    /\ ledgerTransactions = <<>> /\ pc = "idle"
    /\ matchedBank = {} /\ matchedLedger = {} /\ result = NoResult

DateIdle ==
    /\ brouDateStr = <<>> /\ brouDate = [ok |-> FALSE, date |-> 0]
    /\ brouDatePc = "idle"

SheetIdle ==
    /\ sheetEntry = "none" /\ sheetPc = "idle" /\ numSheets = 0
    /\ sheetIdx = 0 /\ maxRow = 0 /\ sheetI = 0 /\ headerRow = -1
    /\ dateCol = -1 /\ sheetUnit = NoRow /\ extracted = 0 /\ parseErr = ""
    /\ keywordSeen = FALSE /\ headerSearched = FALSE

\* var accountMappings *AccountMappingsConfig before the first load
NilMappings == [loaded |-> FALSE, DescriptionMappings |-> <<>>]

EntryIdle ==
    /\ configFile = [found |-> FALSE, DescriptionMappings |-> <<>>]
    /\ accountMappings = NilMappings
    /\ unmatchedTransactions = <<>> /\ entries = <<>> /\ entriesPc = "idle"

QueryIdle ==
    /\ ledgerRun = [parseError |-> FALSE, exitError |-> FALSE, lines |-> <<>>]
    /\ execOutput = <<>> /\ queryTxs = <<>> /\ queryErr = ""
    /\ queryResponse = "none" /\ queryPc = "idle"

RequestIdle == reqPc = <<>> /\ reqTodo = <<>> /\ reqAccess = <<>>

\* currentLine before the first run: y = -1 and no texts
NoLine == [y |-> -1, texts |-> <<>>]

GroupIdle ==
    /\ pageTexts = <<>> /\ textIdx = 0 /\ curLine = NoLine
    /\ pageLines = <<>> /\ groupPc = "idle"

FileIdle ==
    /\ fileLines = <<>> /\ fileIdx = 0 /\ currentDate = 0
    /\ currentDescription = <<>> /\ entryStartLine = 0 /\ fileTxs = <<>>
    /\ filePc = "idle"

ExtIdle ==
    /\ DateIdle /\ SheetIdle /\ EntryIdle /\ QueryIdle /\ RequestIdle
    /\ GroupIdle /\ FileIdle

InitAmount ==
    /\ amountStr \in AmountInputs
    /\ normalized = <<>>
    /\ amount = Zero
    /\ amountPc = "call"
    /\ ReaderIdle
    /\ ReconcileIdle
    /\ ExtIdle

\* parseAmount(amountStr) runs to its return
ParseAmountCall ==
    /\ amountPc = "call"
    /\ normalized' = IF amountStr = <<>> \/ amountStr = <<"-">>
                     THEN amountStr ELSE parseAmountText(amountStr)
    /\ amount' = parseAmount(amountStr)
    /\ amountPc' = "done"
    /\ UNCHANGED <<amountStr, readerVars, reconcileVars,
                   extVars>>

NextAmount == ParseAmountCall

SpecAmount == InitAmount /\ [][NextAmount]_vars

\* C9: parseAmount returns 1234.56 for "1.234,56" and for "1,234.56".
C9_BothConventions ==
    (amountPc = "done" /\
     amountStr \in {<<"1", ".", "2", "3", "4", ",", "5", "6">>,
                    <<"1", ",", "2", "3", "4", ".", "5", "6">>})
        => amount = <<123456, 2>>

----------------------------------------------------------------------------
(* Dates                                                                   *)

IsLeap(y) == (y % 4 = 0 /\ y % 100 # 0) \/ y % 400 = 0

DaysIn(m, y) ==
    IF m = 2 THEN (IF IsLeap(y) THEN 29 ELSE 28)
    ELSE IF m \in {4, 6, 9, 11} THEN 30 ELSE 31

\* time.Date(y, m, d, 0, 0, 0, 0, time.UTC) as days since 0001-01-01
DaysFromCivil(y, m, d) ==
    LET yy == IF m <= 2 THEN y - 1 ELSE y
        era == yy \div 400
        yoe == yy - era * 400
        mp == IF m > 2 THEN m - 3 ELSE m + 9
        doy == (153 * mp + 2) \div 5 + d - 1
        doe == yoe * 365 + yoe \div 4 - yoe \div 100 + doy
    IN  era * 146097 + doe - 306

\* t.IsZero()
IsZero(t) == t = 0

\* excelEpoch of parseBrouDate
ExcelEpoch == DaysFromCivil(1899, 12, 30)

RECURSIVE Pow10(_)
Pow10(n) == IF n = 0 THEN 1 ELSE 10 * Pow10(n - 1)

\* int(serial): truncation toward zero
TruncInt(v) ==
    IF v[1] >= 0 THEN v[1] \div Pow10(v[2])
    ELSE 0 - ((0 - v[1]) \div Pow10(v[2]))

AllDigits(s) == \A i \in 1..Len(s) : s[i] \in Digits

\* strings.Split(s, "/")
RECURSIVE SplitSlash(_, _)
SplitSlash(s, cur) ==
    IF s = <<>> THEN <<cur>>
    ELSE IF Head(s) = "/" THEN <<cur>> \o SplitSlash(Tail(s), <<>>)
    ELSE SplitSlash(Tail(s), Append(cur, Head(s)))

\* the layouts read as month/day/year
ParseMDY(s) ==
    LET parts == SplitSlash(s, <<>>)
    IN  IF /\ Len(parts) = 3
           /\ Len(parts[1]) \in {1, 2} /\ AllDigits(parts[1])
           /\ Len(parts[2]) \in {1, 2} /\ AllDigits(parts[2])
           /\ Len(parts[3]) = 4 /\ AllDigits(parts[3])
        THEN LET m == Atoi(parts[1], 0)
                 d == Atoi(parts[2], 0)
                 y == Atoi(parts[3], 0)
             IN  IF m >= 1 /\ m <= 12 /\ d >= 1 /\ d <= DaysIn(m, y)
                 THEN [ok |-> TRUE, date |-> DaysFromCivil(y, m, d)]
                 ELSE [ok |-> FALSE, date |-> 0]
        ELSE [ok |-> FALSE, date |-> 0]

\* time.Parse under the four layouts "02/01/2006", "2/1/2006", "02/1/2006",
\* "2/01/2006": day and month of one or two digits, a four-digit year, month
\* and day validated against the calendar.
ParseDMY(s) ==
    LET parts == SplitSlash(s, <<>>)
    IN  IF /\ Len(parts) = 3
           /\ Len(parts[1]) \in {1, 2} /\ AllDigits(parts[1])
           /\ Len(parts[2]) \in {1, 2} /\ AllDigits(parts[2])
           /\ Len(parts[3]) = 4 /\ AllDigits(parts[3])
        THEN LET d == Atoi(parts[1], 0)
                 m == Atoi(parts[2], 0)
                 y == Atoi(parts[3], 0)
             IN  IF m >= 1 /\ m <= 12 /\ d >= 1 /\ d <= DaysIn(m, y)
                 THEN [ok |-> TRUE, date |-> DaysFromCivil(y, m, d)]
                 ELSE [ok |-> FALSE, date |-> 0]
        ELSE [ok |-> FALSE, date |-> 0]

\* parseBrouDate: Excel serial number first, then DD/MM/YYYY
parseBrouDate(dateStr) ==
    LET serial == ParseFloat(dateStr)
    IN  IF serial.ok
        THEN [ok |-> TRUE, date |-> ExcelEpoch + TruncInt(serial.val)]
        ELSE ParseDMY(dateStr)

\* parseItauDate
parseItauDate(dateStr) == parseBrouDate(dateStr)

\* parseVisaAmount: period thousands, comma decimal, leading minus
parseVisaAmount(s) ==
    LET t == TrimSpace(s)
        negative == HasPrefix(t, "-")
        u == IF negative THEN Tail(t) ELSE t
        r == ParseFloat(ReplaceAll(ReplaceAll(u, ".", <<>>), ",", <<".">>))
    IN  IF t = <<>> THEN Zero
        ELSE IF ~r.ok THEN Zero
        ELSE IF negative THEN Neg(r.val) ELSE r.val

\* v < 0 on decimals
IsNegative(v) == v[1] < 0

----------------------------------------------------------------------------
(* SpecReader: row extraction of the statement readers                     *)
(*                                                                         *)
(* The machine starts after header discovery (column indices known) and    *)
(* consumes one row of the sheet, record of the CSV file or reconstructed  *)
(* line of the PDF per step.  A cell text of "" stands for an empty cell,  *)
(* a column that was not found (index -1) and a column beyond the row      *)
(* width alike: the code reads all three as "".                            *)

MaxRows == 2

\* texts of the date cell
BrouDateCells ==
    {<<>>,
     <<"T", "o", "t", "a", "l">>,
     <<"0", "1", "/", "0", "1", "/", "0", "0", "0", "1">>,
     <<"1", "0", "/", "0", "3", "/", "2", "0", "2", "4">>,
     <<"4", "5", "3", "6", "3">>,
     <<"3", "1", "/", "0", "2", "/", "2", "0", "2", "4">>}

ItauDateCells ==
    {<<>>,
     <<"S", "a", "l", "d", "o", " ", "f", "i", "n", "a", "l">>,
     <<"0", "1", "/", "0", "1", "/", "0", "0", "0", "1">>,
     <<"1", "0", "/", "0", "3", "/", "2", "0", "2", "4">>,
     <<"1", "2", "/", "3", "/", "2", "0", "2", "4">>,
     <<"4", "5", "3", "6", "3">>}

\* texts of the description (concept) cell
PlainConcept == <<"C", "O", "M", "P", "R", "A">>
SaldoAnterior ==
    <<"S", "a", "l", "d", "o", " ", "A", "n", "t", "e", "r", "i", "o", "r">>

\* texts of the debit and credit cells
DebitCells ==
    {<<>>, <<"1", ",", "5">>, <<"1", "2", "(">>, <<"(", "7", ")">>}

CreditCells == {<<>>, <<"-">>, <<"5">>, <<"5", "-">>}

\* a row that sheet.Row(i) could not deliver, or one of width 0
NilRow == [kind |-> "nil"]

CellRows(dates, concepts) ==
    {[kind |-> "cells", date |-> d, concept |-> c, debit |-> db, credit |-> cr] :
        d \in dates, c \in concepts, db \in DebitCells, cr \in CreditCells}

BrouRows == {NilRow} \cup CellRows(BrouDateCells, {PlainConcept})
ItauRows == {NilRow} \cup CellRows(ItauDateCells, {PlainConcept, SaldoAnterior})
CsvRows == {NilRow} \cup CellRows(BrouDateCells, {PlainConcept})

\* the date update at the end of every extraction loop body
ExtendSpan(st, date) ==
    [st EXCEPT
        !.StartDate = IF IsZero(st.StartDate) \/ date < st.StartDate
                      THEN date ELSE @,
        !.EndDate = IF IsZero(st.EndDate) \/ date > st.EndDate
                    THEN date ELSE @]

AppendTransaction(st, tx) ==
    [st EXCEPT !.Transactions = Append(@, tx)]

\* parseAmount(strings.TrimSpace(cell)) for the amount cells of the rows
CellAmounts ==
    [c \in DebitCells \cup CreditCells |-> parseAmount(TrimSpace(c))]

\* parseBrouDate and parseItauDate for the date cells of the rows
BrouCellDates ==
    [c \in BrouDateCells |-> parseBrouDate(TrimSpace(c))]

ItauCellDates ==
    [c \in ItauDateCells |-> parseItauDate(TrimSpace(c))]

\* the BankTransaction built from the cells of a row
RowTransaction(date, r) ==
    [Date |-> date, Debit |-> CellAmounts[r.debit], Credit |-> CellAmounts[r.credit]]

InitReader ==
    /\ reader \in {"brou", "itau", "csv", "visa"}
    /\ readerPc = "rows"
    /\ rowIndex = 0
    /\ row = NoRow
    /\ statement = NoStatement
    /\ dollarStatement = NoStatement
    /\ AmountIdle
    /\ ReconcileIdle
    /\ ExtIdle

\* one iteration of the second pass of parseBrouSheet
BrouRow ==
    /\ reader = "brou" /\ readerPc = "rows" /\ rowIndex < MaxRows
    /\ \E r \in BrouRows :
        /\ row' = r
        /\ rowIndex' = rowIndex + 1
        /\ IF r.kind = "nil"
           THEN UNCHANGED <<statement, readerPc>>
           ELSE LET dateStr == TrimSpace(r.date)
                    parsed == BrouCellDates[r.date]
                IN  IF dateStr = <<>> \/
                       Contains(ToLower(dateStr), <<"t", "o", "t", "a", "l">>)
                    THEN readerPc' = "returned" /\ UNCHANGED statement
                    ELSE IF ~parsed.ok
                    THEN UNCHANGED <<statement, readerPc>>
                    ELSE /\ statement' =
                              ExtendSpan(AppendTransaction(statement,
                                  RowTransaction(parsed.date, r)), parsed.date)
                         /\ UNCHANGED readerPc
    /\ UNCHANGED <<reader, dollarStatement, amountVars, reconcileVars,
                   extVars>>

\* one iteration of the extraction loop of ParseItauStatement
ItauRow ==
    /\ reader = "itau" /\ readerPc = "rows" /\ rowIndex < MaxRows
    /\ \E r \in ItauRows :
        /\ row' = r
        /\ rowIndex' = rowIndex + 1
        /\ IF r.kind = "nil"
           THEN UNCHANGED <<statement, readerPc>>
           ELSE LET dateStr == TrimSpace(r.date)
                    concept == TrimSpace(r.concept)
                    parsed == ItauCellDates[r.date]
                IN  IF dateStr = <<>> \/
                       Contains(ToUpper(dateStr),
                           <<"S", "A", "L", "D", "O", " ", "F", "I", "N", "A", "L">>)
                    THEN readerPc' = "returned" /\ UNCHANGED statement
                    ELSE IF ~Contains(dateStr, <<"/">>)
                    THEN UNCHANGED <<statement, readerPc>>
                    ELSE IF Contains(ToUpper(concept),
                           <<"S", "A", "L", "D", "O", " ",
                             "A", "N", "T", "E", "R", "I", "O", "R">>)
                    THEN UNCHANGED <<statement, readerPc>>
                    ELSE IF ~parsed.ok
                    THEN UNCHANGED <<statement, readerPc>>
                    ELSE /\ statement' =
                              ExtendSpan(AppendTransaction(statement,
                                  RowTransaction(parsed.date, r)), parsed.date)
                         /\ UNCHANGED readerPc
    /\ UNCHANGED <<reader, dollarStatement, amountVars, reconcileVars,
                   extVars>>

\* one iteration of the data-row loop of ParseBankStatementCSV
CsvRow ==
    /\ reader = "csv" /\ readerPc = "rows" /\ rowIndex < MaxRows
    /\ \E r \in CsvRows :
        /\ row' = r
        /\ rowIndex' = rowIndex + 1
        /\ IF r.kind = "nil"
           THEN UNCHANGED statement
           ELSE LET dateStr == TrimSpace(r.date)
                    parsed == BrouCellDates[r.date]
                IN  IF dateStr = <<>> \/ ~parsed.ok
                    THEN UNCHANGED statement
                    ELSE statement' =
                              ExtendSpan(AppendTransaction(statement,
                                  RowTransaction(parsed.date, r)), parsed.date)
    /\ UNCHANGED <<reader, readerPc, dollarStatement, amountVars, reconcileVars,
                   extVars>>

\* the column boundary of the peso amount and the dollar-line length
PesoColumnEnd == 95
DollarLineLen == 115

\* texts matched by amountPattern on a line
VisaAmountLists ==
    {<<>>,
     <<<<"7", ",", "0", "0">>>>,
     <<<<"-", "1", ".", "2", "3", "4", ",", "5", "0">>>>,
     <<<<"0", ",", "0", "0">>, <<"7", ",", "0", "0">>>>,
     <<<<"-", "5", ",", "0", "0">>, <<"7", ",", "0", "0">>>>,
     <<<<"7", ",", "0", "0">>, <<"0", ",", "0", "0">>>>}

VisaDescriptions ==
    {<<"P", "a", "g", "o", "s">>, <<"C", "O", "M", "P", "R", "A">>}

\* the day, month and two-digit year captured by datePattern
VisaDates == {<<10, 3, 24>>, <<12, 3, 24>>}

\* a reconstructed line of a page; "text" is a line without a leading date
VisaLines ==
    {[kind |-> "text"]} \cup
    {[kind |-> "line", date |-> d, description |-> ds, amounts |-> a,
      secondLastEnd |-> e, lineLen |-> n] :
        d \in VisaDates, ds \in VisaDescriptions, a \in VisaAmountLists,
        e \in {PesoColumnEnd - 1, PesoColumnEnd},
        n \in {DollarLineLen - 1, DollarLineLen}}

\* every credit-card amount booked as a charge, whatever its sign
VisaTransactionAsDebit(date, description, amt) ==
    [Date |-> date,
     Description |-> description,
     Debit |-> amt,
     Credit |-> Zero]

\* the transaction of a credit-card amount: negative is a payment (credit)
VisaTransaction(date, description, amt) ==
    [Date |-> date,
     Description |-> description,
     Debit |-> IF IsNegative(amt) THEN Zero ELSE amt,
     Credit |-> IF IsNegative(amt) THEN Neg(amt) ELSE Zero]

\* one iteration of the line loop of ParseVisaItauStatement
VisaLine ==
    /\ reader = "visa" /\ readerPc = "rows" /\ rowIndex < MaxRows
    /\ \E l \in VisaLines :
        /\ row' = l
        /\ rowIndex' = rowIndex + 1
        /\ IF l.kind = "text"
           THEN UNCHANGED <<statement, dollarStatement>>
           ELSE
            LET date == DaysFromCivil(l.date[3] + 2000, l.date[2], l.date[1])
                n == Len(l.amounts)
                isDollarLine == l.lineLen >= DollarLineLen
                isPagosLine == Contains(ToUpper(l.description),
                                        <<"P", "A", "G", "O", "S">>)
            IN  IF isPagosLine /\ n >= 2 /\ l.secondLastEnd < PesoColumnEnd
                THEN
                    LET pesoAmount == parseVisaAmount(l.amounts[n - 1])
                        dollarAmount == parseVisaAmount(l.amounts[n])
                        peso == IF pesoAmount # Zero
                                THEN AppendTransaction(statement,
                                        VisaTransaction(date, l.description, pesoAmount))
                                ELSE statement
                        dollar == IF dollarAmount # Zero
                                  THEN AppendTransaction(dollarStatement,
                                          VisaTransaction(date, l.description, dollarAmount))
                                  ELSE dollarStatement
                    IN  /\ statement' = ExtendSpan(peso, date)
                        /\ dollarStatement' = ExtendSpan(dollar, date)
                ELSE
                    LET statementAmount ==
                            IF n > 0 THEN parseVisaAmount(l.amounts[n]) ELSE Zero
                        tx == VisaTransaction(date, l.description,
                                                statementAmount)
                    IN  IF statementAmount = Zero
                        THEN UNCHANGED <<statement, dollarStatement>>
                        ELSE IF isDollarLine
                        THEN /\ dollarStatement' =
                                  ExtendSpan(AppendTransaction(dollarStatement, tx), date)
                             /\ UNCHANGED statement
                        ELSE /\ statement' =
                                  ExtendSpan(AppendTransaction(statement, tx), date)
                             /\ UNCHANGED dollarStatement
    /\ UNCHANGED <<reader, readerPc, amountVars, reconcileVars,
                   extVars>>

\* the rows (lines) are exhausted and the reader returns what it built
ReaderReturn ==
    /\ readerPc = "rows"
    /\ readerPc' = "returned"
    /\ UNCHANGED <<reader, rowIndex, row, statement, dollarStatement,
                   amountVars, reconcileVars,
                   extVars>>

NextReader == BrouRow \/ ItauRow \/ CsvRow \/ VisaLine \/ ReaderReturn

SpecReader == InitReader /\ [][NextReader]_vars

\* every transaction of st lies within the dates st reports
SpanCovers(st) ==
    \A i \in 1..Len(st.Transactions) :
        st.StartDate <= st.Transactions[i].Date /\
        st.Transactions[i].Date <= st.EndDate

\* C8: in every Statement a reader builds, StartDate <= Date <= EndDate holds
\* for every transaction it contains, after any sequence of rows or lines.
C8_SpanCoversDates == SpanCovers(statement) /\ SpanCovers(dollarStatement)

\* a decimal number as strconv.ParseFloat accepts it over the characters of
\* the model: an optional sign, digits with at most one period, a digit at least
WellFormedNumber(s) ==
    LET body == IF s # <<>> /\ s[1] \in {"+", "-"} THEN Tail(s) ELSE s
    IN  /\ \A i \in 1..Len(body) : body[i] \in Digits \cup {"."}
        /\ Count(body, ".") <= 1
        /\ \E i \in 1..Len(body) : body[i] \in Digits

\* a cell text that carries no amount: empty, a lone dash, or not a number
\* once currency marks and separators are normalised
CarriesNoAmount(cell) ==
    \/ TrimSpace(cell) \in {<<>>, <<"-">>}
    \/ ~WellFormedNumber(parseAmountText(TrimSpace(cell)))

SlashDateCells ==
    {<<"1", "0", "/", "0", "3", "/", "2", "0", "2", "4">>,
     <<"1", "2", "/", "3", "/", "2", "0", "2", "4">>}

LastTransaction(st) == st.Transactions[Len(st.Transactions)]

----------------------------------------------------------------------------
(* Rational numbers: the scores of reconciliation, <<n, d>> with d > 0 in  *)
(* lowest terms                                                            *)

Abs(x) == IF x < 0 THEN 0 - x ELSE x

RECURSIVE GCD(_, _)
GCD(a, b) == IF b = 0 THEN a ELSE GCD(b, a % b)

LCM(a, b) == (a \div GCD(a, b)) * b

Rat(n, d) ==
    LET g == GCD(Abs(n), d)
    IN  IF n = 0 THEN <<0, 1>> ELSE <<n \div g, d \div g>>

One == <<1, 1>>

RatAdd(a, b) ==
    LET l == LCM(a[2], b[2])
    IN  Rat(a[1] * (l \div a[2]) + b[1] * (l \div b[2]), l)

RatSub(a, b) == RatAdd(a, <<0 - b[1], b[2]>>)

RatMul(a, b) ==
    LET g1 == GCD(Abs(a[1]), b[2])
        g2 == GCD(Abs(b[1]), a[2])
    IN  IF a[1] = 0 \/ b[1] = 0 THEN <<0, 1>>
        ELSE Rat((a[1] \div g1) * (b[1] \div g2), (a[2] \div g2) * (b[2] \div g1))

\* a / b for b > 0
RatDiv(a, b) == RatMul(a, <<b[2], b[1]>>)

RatLess(a, b) ==
    LET l == LCM(a[2], b[2])
    IN  a[1] * (l \div a[2]) < b[1] * (l \div b[2])

RatMax(a, b) == IF RatLess(a, b) THEN b ELSE a

----------------------------------------------------------------------------
(* CompareTransactionDescriptions                                          *)

\* strings.Fields(s)
RECURSIVE FieldsFrom(_, _)
FieldsFrom(s, cur) ==
    IF s = <<>> THEN (IF cur = <<>> THEN <<>> ELSE <<cur>>)
    ELSE IF Head(s) = " "
        THEN (IF cur = <<>> THEN <<>> ELSE <<cur>>) \o FieldsFrom(Tail(s), <<>>)
    ELSE FieldsFrom(Tail(s), Append(cur, Head(s)))

Fields(s) == FieldsFrom(s, <<>>)

\* words of desc1 that occur in desc2, over the larger word count
CompareTransactionDescriptions(desc1, desc2) ==
    LET words1 == Fields(ToLower(TrimSpace(desc1)))
        words2 == Fields(ToLower(TrimSpace(desc2)))
        matches == Cardinality({i \in 1..Len(words1) :
                        \E j \in 1..Len(words2) : words1[i] = words2[j]})
        totalWords == IF Len(words2) > Len(words1) THEN Len(words2)
                      ELSE Len(words1)
    IN  IF totalWords = 0 THEN <<0, 1>> ELSE Rat(matches, totalWords)

----------------------------------------------------------------------------
(* Spec: ReconcileBankStatement                                            *)
(*                                                                         *)
(* The repository holds the function twice: the earlier file (part_003)    *)
(* with a 3-day, 0.01 exact pass and a scored fuzzy pass, and the later    *)
(* one (part_004) with a same-day, 0.001 exact pass and a 2-day fuzzy      *)
(* pass.  variant says which one runs.  Amounts are thousandths.  A match  *)
(* holds the indices its two pointers refer to; the unmatched lists hold   *)
(* the index each copied transaction was taken from.                       *)

MaxBank == 2
MaxLedger == 2

Day(d) == DaysFromCivil(2024, 3, d)

SupermercadoXyz ==
    <<"S", "U", "P", "E", "R", "M", "E", "R", "C", "A", "D", "O", " ",
      "X", "Y", "Z">>

SuperXyzCompra ==
    <<"s", "u", "p", "e", "r", " ", "x", "y", "z", " ",
      "c", "o", "m", "p", "r", "a">>

\* bank transactions a statement may carry
BankTxs ==
    {[Date |-> Day(d), Description |-> SupermercadoXyz,
      Debit |-> a[1], Credit |-> a[2]] :
        d \in {10, 11}, a \in {<<0, 500000>>, <<103000, 0>>}}

\* ledger transactions the query may return
LedgerTxs ==
    {[Date |-> Day(d), Description |-> SuperXyzCompra, Amount |-> a] :
        d \in {10, 12}, a \in {500000, -100000}}
    \cup {[Date |-> Day(10), Description |-> SuperXyzCompra, Amount |-> 500005],
          [Date |-> Day(13), Description |-> SuperXyzCompra, Amount |-> 500000]}

SeqsUpTo(S, n) == UNION {[1..k -> S] : k \in 0..n}

\* the statement a reader returns for the transactions txs
RECURSIVE BuildStatement(_, _)
BuildStatement(txs, st) ==
    IF txs = <<>> THEN st
    ELSE BuildStatement(Tail(txs),
            ExtendSpan(AppendTransaction(st, Head(txs)), Head(txs).Date))

SetMin(S) == CHOOSE x \in S : \A y \in S : x <= y

\* bankAmount with the two columns swapped
NetAmountSwapped(bt) == bt.Debit - bt.Credit

\* bankAmount := bt.Credit - bt.Debit
NetAmount(bt) == bt.Credit - bt.Debit

\* math.Abs(bt.Date.Sub(lt.Date).Hours() / 24)
DaysDiff(bt, lt) == Abs(bt.Date - lt.Date)

\* math.Abs(bankAmount - lt.Amount)
AmountDiff(bt, lt) == Abs(NetAmount(bt) - lt.Amount)

\* the totals loops over the statement and the ledger transactions
RECURSIVE BankTotals(_, _, _)
BankTotals(txs, debits, credits) ==
    IF txs = <<>> THEN <<debits, credits>>
    ELSE BankTotals(Tail(txs), debits + Head(txs).Debit,
                    credits + Head(txs).Credit)

\* the debit equivalent without the change of sign
DebitEquivalentSigned(lt) == lt.Amount

\* -lt.Amount
DebitEquivalent(lt) == 0 - lt.Amount

RECURSIVE LedgerTotals(_, _, _)
LedgerTotals(lts, debits, credits) ==
    IF lts = <<>> THEN <<debits, credits>>
    ELSE IF Head(lts).Amount < 0
        THEN LedgerTotals(Tail(lts), debits + DebitEquivalent(Head(lts)), credits)
    ELSE LedgerTotals(Tail(lts), debits, credits + Head(lts).Amount)

\* a pass that does not record the bank index
MarkBankSkipped(mb, bi) == mb

\* matchedBank[bi] = true
MarkBank(mb, bi) == mb \cup {bi}

\* matchedLedger[li] = true
MarkLedger(ml, li) == ml \cup {li}

\* the test of the first pass on one pair
ExactCandidate(v, bt, lt) ==
    IF v = "part_003"
    THEN DaysDiff(bt, lt) <= 3 /\ AmountDiff(bt, lt) < 10
    ELSE bt.Date = lt.Date /\ AmountDiff(bt, lt) < 1

\* the first pass from bank index b on
RECURSIVE ExactLoop(_, _, _, _, _, _, _)
ExactLoop(v, txs, lts, b, mb, ml, ms) ==
    IF b > Len(txs)
    THEN [matchedBank |-> mb, matchedLedger |-> ml, Matches |-> ms]
    ELSE LET found == {li \in 1..Len(lts) :
                          li \notin ml /\ ExactCandidate(v, txs[b], lts[li])}
         IN  IF b \in mb \/ found = {}
             THEN ExactLoop(v, txs, lts, b + 1, mb, ml, ms)
             ELSE ExactLoop(v, txs, lts, b + 1, MarkBank(mb, b),
                      MarkLedger(ml, SetMin(found)),
                      Append(ms, [bank |-> b, ledger |-> SetMin(found),
                                  MatchScore |-> One, MatchType |-> "exact"]))

\* part_003: amountThreshold := math.Max(10.0, math.Abs(bankAmount)*0.05)
AmountThreshold(bt) == RatMax(<<10000, 1>>, Rat(Abs(NetAmount(bt)), 20))

\* part_003: totalScore of one pair
TotalScore(bt, lt) ==
    LET dateScore == RatSub(One, Rat(DaysDiff(bt, lt), 5))
        amountScore == RatSub(One, RatDiv(<<AmountDiff(bt, lt), 1>>,
                                          AmountThreshold(bt)))
        descScore == CompareTransactionDescriptions(bt.Description,
                                                    lt.Description)
    IN  RatAdd(RatAdd(RatMul(dateScore, <<3, 10>>),
                      RatMul(amountScore, <<1, 2>>)),
               RatMul(descScore, <<1, 5>>))

\* part_003: the pair passes the date and amount windows of the second pass
InFuzzyWindow(bt, lt) ==
    /\ DaysDiff(bt, lt) <= 5
    /\ ~RatLess(AmountThreshold(bt), <<AmountDiff(bt, lt), 1>>)

\* part_003: the inner loop of the second pass from ledger index li on
RECURSIVE BestMatch(_, _, _, _, _, _)
BestMatch(bt, lts, ml, li, bestMatchIndex, bestMatchScore) ==
    IF li > Len(lts)
    THEN [index |-> bestMatchIndex, score |-> bestMatchScore]
    ELSE IF li \in ml \/ ~InFuzzyWindow(bt, lts[li])
    THEN BestMatch(bt, lts, ml, li + 1, bestMatchIndex, bestMatchScore)
    ELSE LET totalScore == TotalScore(bt, lts[li])
         IN  IF RatLess(bestMatchScore, totalScore) /\
                RatLess(<<3, 5>>, totalScore)
             THEN BestMatch(bt, lts, ml, li + 1, li, totalScore)
             ELSE BestMatch(bt, lts, ml, li + 1, bestMatchIndex,
                            bestMatchScore)

\* part_004: the test of the second pass on one pair
NearCandidate(bt, lt) == DaysDiff(bt, lt) <= 2 /\ AmountDiff(bt, lt) < 1

\* part_004: the inner loop of the second pass, which stops at the first hit
FirstNear(bt, lts, ml) ==
    LET found == {li \in 1..Len(lts) : li \notin ml /\ NearCandidate(bt, lts[li])}
    IN  IF found = {} THEN [index |-> 0, score |-> <<0, 1>>]
        ELSE [index |-> SetMin(found),
              score |-> RatSub(One, Rat(DaysDiff(bt, lts[SetMin(found)]), 3))]

\* the second pass as it would choose without looking at matchedLedger
FuzzyChoiceAmongAll(v, bt, lts, ml) ==
    IF v = "part_003" THEN BestMatch(bt, lts, {}, 1, 0, <<0, 1>>)
    ELSE FirstNear(bt, lts, {})

\* the ledger transaction the second pass gives to bank transaction bt
FuzzyChoice(v, bt, lts, ml) ==
    IF v = "part_003" THEN BestMatch(bt, lts, ml, 1, 0, <<0, 1>>)
    ELSE FirstNear(bt, lts, ml)

\* the second pass from bank index b on
RECURSIVE FuzzyLoop(_, _, _, _, _, _, _)
FuzzyLoop(v, txs, lts, b, mb, ml, ms) ==
    IF b > Len(txs)
    THEN [matchedBank |-> mb, matchedLedger |-> ml, Matches |-> ms]
    ELSE LET c == FuzzyChoice(v, txs[b], lts, ml)
         IN  IF b \in mb \/ c.index = 0
             THEN FuzzyLoop(v, txs, lts, b + 1, mb, ml, ms)
             ELSE FuzzyLoop(v, txs, lts, b + 1, MarkBank(mb, b),
                      MarkLedger(ml, c.index),
                      Append(ms, [bank |-> b, ledger |-> c.index,
                                  MatchScore |-> c.score, MatchType |-> "fuzzy"]))

\* SelectSeq over indices: the entries [index, tx] of seq whose index is kept
RECURSIVE CollectFrom(_, _, _)
CollectFrom(seq, i, keep) ==
    IF i > Len(seq) THEN <<>>
    ELSE (IF i \in keep THEN <<[index |-> i, tx |-> seq[i]]>> ELSE <<>>)
         \o CollectFrom(seq, i + 1, keep)

\* the date range test without the IsZero guards
InStatementRangeUnguarded(st, lt) ==
    /\ ~(lt.Date < st.StartDate)
    /\ ~(lt.Date > st.EndDate)

\* part_004: the ledger transaction lies in the date range of the statement
InStatementRange(st, lt) ==
    /\ ~(~IsZero(st.StartDate) /\ lt.Date < st.StartDate)
    /\ ~(~IsZero(st.EndDate) /\ lt.Date > st.EndDate)

\* the indices of the ledger transactions reported as unmatched
ReportedLedger(v, st, lts, ml) ==
    {li \in 1..Len(lts) :
        li \notin ml /\ (v = "part_003" \/ InStatementRange(st, lts[li]))}

Init ==
    /\ variant \in {"part_003", "part_004"}
    /\ bankStatement \in
          {BuildStatement(txs, NoStatement) : txs \in SeqsUpTo(BankTxs, MaxBank)}
    /\ ledgerTransactions \in SeqsUpTo(LedgerTxs, MaxLedger)
    /\ pc = "totals"
    /\ matchedBank = {}
    /\ matchedLedger = {}
    /\ result = NoResult
    /\ AmountIdle
    /\ ReaderIdle
    /\ ExtIdle

\* "Calculate totals"
Totals ==
    /\ pc = "totals"
    /\ LET bank == BankTotals(bankStatement.Transactions, 0, 0)
           ledger == LedgerTotals(ledgerTransactions, 0, 0)
       IN  result' = [result EXCEPT
                !.TotalBankDebits = bank[1], !.TotalBankCredits = bank[2],
                !.TotalLedgerDebits = ledger[1], !.TotalLedgerCredits = ledger[2]]
    /\ pc' = "exact"
    /\ UNCHANGED <<variant, bankStatement, ledgerTransactions, matchedBank,
                   matchedLedger, amountVars, readerVars,
                   extVars>>

\* "First pass: exact matches"
ExactPass ==
    /\ pc = "exact"
    /\ LET r == ExactLoop(variant, bankStatement.Transactions,
                          ledgerTransactions, 1, matchedBank, matchedLedger,
                          result.Matches)
       IN  /\ matchedBank' = r.matchedBank
           /\ matchedLedger' = r.matchedLedger
           /\ result' = [result EXCEPT !.Matches = r.Matches]
    /\ pc' = "fuzzy"
    /\ UNCHANGED <<variant, bankStatement, ledgerTransactions, amountVars,
                   readerVars,
                   extVars>>

\* "Second pass: fuzzy matches"
FuzzyPass ==
    /\ pc = "fuzzy"
    /\ LET r == FuzzyLoop(variant, bankStatement.Transactions,
                          ledgerTransactions, 1, matchedBank, matchedLedger,
                          result.Matches)
       IN  /\ matchedBank' = r.matchedBank
           /\ matchedLedger' = r.matchedLedger
           /\ result' = [result EXCEPT !.Matches = r.Matches]
    /\ pc' = "collect"
    /\ UNCHANGED <<variant, bankStatement, ledgerTransactions, amountVars,
                   readerVars,
                   extVars>>

\* "Find the match details if matched": the first match of the result whose
\* bank transaction has the date, description, debit and credit of bt; 0 if
\* there is none
MatchDetails(txs, ms, bt) ==
    LET same == {k \in 1..Len(ms) :
                    /\ txs[ms[k].bank].Date = bt.Date
                    /\ txs[ms[k].bank].Description = bt.Description
                    /\ txs[ms[k].bank].Debit = bt.Debit
                    /\ txs[ms[k].bank].Credit = bt.Credit}
    IN  IF same = {} THEN 0 ELSE SetMin(same)

\* "Build AllBankTransactions with status for each transaction"; the ledger
\* transaction is kept as its index, 0 for nil
BuildAllBankTransactions(txs, mb, ms) ==
    [bi \in 1..Len(txs) |->
        LET k == IF bi \in mb THEN MatchDetails(txs, ms, txs[bi]) ELSE 0
        IN  [Transaction |-> txs[bi],
             Matched |-> bi \in mb,
             MatchType |-> IF k = 0 THEN "" ELSE ms[k].MatchType,
             MatchScore |-> IF k = 0 THEN <<0, 1>> ELSE ms[k].MatchScore,
             LedgerTransaction |-> IF k = 0 THEN 0 ELSE ms[k].ledger]]

\* "Collect unmatched transactions" and return
Collect ==
    /\ pc = "collect"
    /\ result' = [result EXCEPT
            !.UnmatchedBank =
                CollectFrom(bankStatement.Transactions, 1,
                    (1..Len(bankStatement.Transactions)) \ matchedBank),
            !.UnmatchedLedger =
                CollectFrom(ledgerTransactions, 1,
                    ReportedLedger(variant, bankStatement, ledgerTransactions,
                                   matchedLedger)),
            !.AllBankTransactions =
                IF variant = "part_004"
                THEN BuildAllBankTransactions(bankStatement.Transactions,
                                              matchedBank, result.Matches)
                ELSE <<>>]
    /\ pc' = "done"
    /\ UNCHANGED <<variant, bankStatement, ledgerTransactions, matchedBank,
                   matchedLedger, amountVars, readerVars,
                   extVars>>

Next == Totals \/ ExactPass \/ FuzzyPass \/ Collect

Spec == Init /\ [][Next]_vars

----------------------------------------------------------------------------
(* Properties of ReconcileBankStatement                                    *)

Done == pc = "done"

BankIndices == 1..Len(bankStatement.Transactions)

LedgerIndices == 1..Len(ledgerTransactions)

MatchIndices == 1..Len(result.Matches)

MatchesOfBank(b) == {k \in MatchIndices : result.Matches[k].bank = b}

MatchesOfLedger(li) == {k \in MatchIndices : result.Matches[k].ledger = li}

ListingsOfBank(b) ==
    {k \in 1..Len(result.UnmatchedBank) :
        /\ result.UnmatchedBank[k].index = b
        /\ result.UnmatchedBank[k].tx = bankStatement.Transactions[b]}

ListingsOfLedger(li) ==
    {k \in 1..Len(result.UnmatchedLedger) :
        /\ result.UnmatchedLedger[k].index = li
        /\ result.UnmatchedLedger[k].tx = ledgerTransactions[li]}

ExactOfBank(b) == {k \in MatchesOfBank(b) : result.Matches[k].MatchType = "exact"}

FuzzyOfBank(b) == {k \in MatchesOfBank(b) : result.Matches[k].MatchType = "fuzzy"}

\* C1: once the call has returned, each bank transaction is the bank side of
\* one match or listed once in UnmatchedBank, never both and never neither,
\* and len(Matches) + len(UnmatchedBank) = len(statement.Transactions).
C1_BankPartition ==
    Done =>
        /\ \A b \in BankIndices :
              Cardinality(MatchesOfBank(b)) + Cardinality(ListingsOfBank(b)) = 1
        /\ Len(result.Matches) + Len(result.UnmatchedBank)
              = Len(bankStatement.Transactions)

C1_Witness ==
    /\ Done
    /\ Len(bankStatement.Transactions) = 2
    /\ Cardinality(MatchesOfBank(1)) = 0 /\ Cardinality(ListingsOfBank(1)) = 1
    /\ Cardinality(MatchesOfBank(2)) = 1 /\ Cardinality(ListingsOfBank(2)) = 0

\* the ledger transaction is dated inside [StartDate, EndDate]
InsideSpan(li) ==
    /\ bankStatement.StartDate <= ledgerTransactions[li].Date
    /\ ledgerTransactions[li].Date <= bankStatement.EndDate

\* the ledger transaction is dated before a StartDate that is set or after an
\* EndDate that is set
OutsideSetSpan(li) ==
    \/ /\ bankStatement.StartDate # 0
       /\ ledgerTransactions[li].Date < bankStatement.StartDate
    \/ /\ bankStatement.EndDate # 0
       /\ ledgerTransactions[li].Date > bankStatement.EndDate

\* C2, as stated: in the later ReconcileBankStatement each ledger transaction
\* is matched once and not listed, or unmatched, dated inside
\* [StartDate, EndDate] and listed once, or unmatched, dated before StartDate
\* or after EndDate and not listed.
C2_LedgerThreeClasses ==
    (Done /\ variant = "part_004") =>
        \A li \in LedgerIndices :
            /\ Cardinality(MatchesOfLedger(li)) <= 1
            /\ Cardinality(ListingsOfLedger(li)) =
                  IF Cardinality(MatchesOfLedger(li)) = 1 THEN 0
                  ELSE IF InsideSpan(li) THEN 1 ELSE 0

\* C2, amended: the third class is the unmatched ledger transactions dated
\* before a StartDate that is not the zero time or after an EndDate that is
\* not the zero time; every other unmatched one is listed once.
C2_LedgerThreeClassesSetSpan ==
    (Done /\ variant = "part_004") =>
        \A li \in LedgerIndices :
            /\ Cardinality(MatchesOfLedger(li)) <= 1
            /\ Cardinality(ListingsOfLedger(li)) =
                  IF Cardinality(MatchesOfLedger(li)) = 1 THEN 0
                  ELSE IF OutsideSetSpan(li) THEN 0 ELSE 1

C2_Witness ==
    /\ Done
    /\ variant = "part_004"
    /\ Len(ledgerTransactions) = 2
    /\ Cardinality(MatchesOfLedger(1)) = 1
    /\ Cardinality(MatchesOfLedger(2)) = 0
    /\ OutsideSetSpan(2)
    /\ result.UnmatchedLedger = <<>>

\* C3: every match of type exact has score 1.0 and every match of type fuzzy
\* has a score above 0.6 and at most 1.0.
C3_ScoreRanges ==
    Done =>
        \A k \in MatchIndices :
            /\ result.Matches[k].MatchType = "exact"
                  => result.Matches[k].MatchScore = One
            /\ result.Matches[k].MatchType = "fuzzy"
                  => /\ RatLess(<<3, 5>>, result.Matches[k].MatchScore)
                     /\ ~RatLess(One, result.Matches[k].MatchScore)

\* the ledger transaction was not taken in the first pass by a bank
\* transaction before b
FreeInExactPass(b, li) ==
    \A k \in MatchesOfLedger(li) :
        result.Matches[k].MatchType = "exact" => result.Matches[k].bank >= b

\* the ledger transaction was not taken in the first pass, nor in the second
\* by a bank transaction before b
FreeInFuzzyPass(b, li) ==
    \A k \in MatchesOfLedger(li) :
        result.Matches[k].MatchType = "fuzzy" /\ result.Matches[k].bank >= b

SameDateSameAmount(b, li) ==
    /\ bankStatement.Transactions[b].Date = ledgerTransactions[li].Date
    /\ ledgerTransactions[li].Amount =
          bankStatement.Transactions[b].Credit - bankStatement.Transactions[b].Debit

Credit500 ==
    [Date |-> Day(10), Description |-> SupermercadoXyz, Debit |-> 0,
     Credit |-> 500000]

Amount500 == [Date |-> Day(10), Description |-> SuperXyzCompra, Amount |-> 500000]

\* C4: a bank transaction with a ledger transaction of the same date and of
\* its net amount that no earlier bank transaction has taken is in one match,
\* of type exact with score 1.0, and not in UnmatchedBank; {credit 500} against
\* {amount 500} on one date gives one match and two empty unmatched lists.
C4_SameDateSameAmountExact ==
    Done =>
        /\ \A b \in BankIndices :
              (\E li \in LedgerIndices :
                    SameDateSameAmount(b, li) /\ FreeInExactPass(b, li))
              => /\ \E k \in ExactOfBank(b) : result.Matches[k].MatchScore = One
                 /\ FuzzyOfBank(b) = {}
                 /\ ListingsOfBank(b) = {}
        /\ (bankStatement.Transactions = <<Credit500>> /\
            ledgerTransactions = <<Amount500>>)
              => /\ Len(result.Matches) = 1
                 /\ result.Matches[1].MatchType = "exact"
                 /\ result.Matches[1].MatchScore = One
                 /\ result.UnmatchedBank = <<>>
                 /\ result.UnmatchedLedger = <<>>

C4_Witness ==
    /\ Done
    /\ bankStatement.Transactions = <<Credit500>>
    /\ ledgerTransactions = <<Amount500>>
    /\ Len(result.Matches) = 1

\* the tolerance max(10, 5% of |bank net amount|) for bank transaction b
Tolerance(b) ==
    RatMax(<<10000, 1>>,
           Rat(5 * Abs(bankStatement.Transactions[b].Credit
                       - bankStatement.Transactions[b].Debit), 100))

DaysApart(b, li) ==
    Abs(bankStatement.Transactions[b].Date - ledgerTransactions[li].Date)

AmountsApart(b, li) ==
    Abs(bankStatement.Transactions[b].Credit - bankStatement.Transactions[b].Debit
        - ledgerTransactions[li].Amount)

\* 0.3 dateScore + 0.5 amountScore + 0.2 descriptionScore
WeightedScore(b, li) ==
    RatAdd(RatAdd(RatMul(<<3, 10>>, RatSub(One, Rat(DaysApart(b, li), 5))),
                  RatMul(<<1, 2>>,
                         RatSub(One, RatDiv(<<AmountsApart(b, li), 1>>,
                                            Tolerance(b))))),
           RatMul(<<1, 5>>,
                  CompareTransactionDescriptions(
                      bankStatement.Transactions[b].Description,
                      ledgerTransactions[li].Description)))

\* within 5 days, within the tolerance, and scored above 0.6
FuzzyAcceptable(b, li) ==
    /\ DaysApart(b, li) <= 5
    /\ ~RatLess(Tolerance(b), <<AmountsApart(b, li), 1>>)
    /\ RatLess(<<3, 5>>, WeightedScore(b, li))

Debit103 ==
    [Date |-> Day(10), Description |-> SupermercadoXyz, Debit |-> 103000,
     Credit |-> 0]

AmountMinus100 ==
    [Date |-> Day(12), Description |-> SuperXyzCompra, Amount |-> -100000]

\* C5: a bank transaction the first pass left unmatched is in a fuzzy match
\* if and only if a ledger transaction still unmatched at its turn is within
\* 5 days, within max(10, 5%) of its amount and scored above 0.6; {debit 103,
\* 2024-03-10} against {-100, 2024-03-12} is one fuzzy match when the score
\* is above 0.6 and otherwise unmatched on both sides.
C5_FuzzyIffAcceptable ==
    Done =>
        /\ \A b \in BankIndices :
              ExactOfBank(b) = {} =>
                  (FuzzyOfBank(b) # {} <=>
                      \E li \in LedgerIndices :
                          FreeInFuzzyPass(b, li) /\ FuzzyAcceptable(b, li))
        /\ (bankStatement.Transactions = <<Debit103>> /\
            ledgerTransactions = <<AmountMinus100>>)
              => IF FuzzyAcceptable(1, 1)
                 THEN /\ Len(result.Matches) = 1
                      /\ result.Matches[1].MatchType = "fuzzy"
                 ELSE /\ result.Matches = <<>>
                      /\ Len(result.UnmatchedBank) = 1
                      /\ Len(result.UnmatchedLedger) = 1

\* C6: the first pass pairs a bank transaction with a ledger transaction
\* only when they are within 3 days and less than 0.001 apart, and it uses
\* that window and epsilon for every candidate: a bank transaction with such
\* a ledger transaction free at its turn gets an exact match.
C6_ExactWindowAndEpsilon ==
    Done =>
        /\ \A k \in MatchIndices :
              result.Matches[k].MatchType = "exact" =>
                  /\ DaysApart(result.Matches[k].bank, result.Matches[k].ledger) <= 3
                  /\ AmountsApart(result.Matches[k].bank, result.Matches[k].ledger) < 1
        /\ \A b \in BankIndices :
              (\E li \in LedgerIndices :
                    /\ FreeInExactPass(b, li)
                    /\ DaysApart(b, li) <= 3
                    /\ AmountsApart(b, li) < 1)
              => ExactOfBank(b) # {}

RECURSIVE SumSeq(_)
SumSeq(seq) == IF seq = <<>> THEN 0 ELSE Head(seq) + SumSeq(Tail(seq))

\* C7: from the totals step on, whatever is matched later, the four totals
\* are the sums of Debit and of Credit over all statement transactions, of
\* -Amount over all ledger transactions with Amount < 0 and of Amount over
\* all with Amount >= 0, those outside the date span included.
C7_TotalsOfInputs ==
    pc # "totals" =>
        /\ result.TotalBankDebits =
              SumSeq([b \in BankIndices |-> bankStatement.Transactions[b].Debit])
        /\ result.TotalBankCredits =
              SumSeq([b \in BankIndices |-> bankStatement.Transactions[b].Credit])
        /\ result.TotalLedgerDebits =
              SumSeq([li \in LedgerIndices |->
                        IF ledgerTransactions[li].Amount < 0
                        THEN 0 - ledgerTransactions[li].Amount ELSE 0])
        /\ result.TotalLedgerCredits =
              SumSeq([li \in LedgerIndices |->
                        IF ledgerTransactions[li].Amount >= 0
                        THEN ledgerTransactions[li].Amount ELSE 0])

C7_Witness ==
    /\ Done
    /\ variant = "part_004"
    /\ result.Matches # <<>>
    /\ result.TotalLedgerDebits = 100000
    /\ \E li \in LedgerIndices :
          /\ MatchesOfLedger(li) = {}
          /\ ledgerTransactions[li].Amount < 0
          /\ OutsideSetSpan(li)

----------------------------------------------------------------------------
(* SpecDate: one call of parseBrouDate                                     *)

MaxDateTokens == 4

\* the pieces date texts are assembled from
DateTokens ==
    {<<"1">>, <<"0", "2">>, <<"3", "1">>, <<"2", "0", "2", "4">>,
     <<"/">>, <<".">>, <<"-">>, <<"x">>}

DayTexts ==
    {<<"1">>, <<"0", "1">>, <<"2", "9">>, <<"3", "1">>, <<"3", "2">>,
     <<"0", "0", "1">>, <<>>}

MonthTexts == {<<"2">>, <<"0", "2">>, <<"1", "2">>, <<"1", "3">>, <<"0">>}

YearTexts == {<<"2", "0", "2", "4">>, <<"2", "0", "2", "3">>, <<"2", "4">>}

SerialTexts ==
    {<<"0">>, <<"4", "5", "3", "6", "3">>, <<"4", "5", "3", "6", "3", ".", "9">>,
     <<"-", "4", "5", "3", "6", "3">>, <<"+", "1">>}

DateInputs ==
    {s \in {Concat(ts) :
                ts \in UNION {[1..n -> DateTokens] : n \in 0..MaxDateTokens}} :
        DigitCount(s) <= MaxDigits}
    \cup {d \o <<"/">> \o m \o <<"/">> \o y :
            d \in DayTexts, m \in MonthTexts, y \in YearTexts}
    \cup {d \o <<"-">> \o m \o <<"-">> \o y :
            d \in DayTexts, m \in MonthTexts, y \in YearTexts}
    \cup SerialTexts

\* every group but the parseBrouDate call
dateFrame == <<amountVars, readerVars, reconcileVars, sheetVars, entryVars,
               queryVars, requestVars, groupVars, fileVars>>

InitDate ==
    /\ brouDateStr \in DateInputs
    /\ brouDate = [ok |-> FALSE, date |-> 0]
    /\ brouDatePc = "call"
    /\ AmountIdle
    /\ ReaderIdle
    /\ ReconcileIdle
    /\ SheetIdle
    /\ EntryIdle
    /\ QueryIdle
    /\ RequestIdle
    /\ GroupIdle
    /\ FileIdle

\* parseBrouDate(dateStr) runs to its return
ParseBrouDateCall ==
    /\ brouDatePc = "call"
    /\ brouDate' = parseBrouDate(brouDateStr)
    /\ brouDatePc' = "done"
    /\ UNCHANGED <<brouDateStr, dateFrame>>

NextDate == ParseBrouDateCall

SpecDate == InitDate /\ [][NextDate]_vars

DigitChar(n) == CHOOSE c \in Digits : DigitVal(c) = n

\* the decimal text of n, padded with zeros to at least width characters
RECURSIVE DecimalText(_, _)
DecimalText(n, width) ==
    IF n < 10 /\ width <= 1 THEN <<DigitChar(n)>>
    ELSE Append(DecimalText(n \div 10, width - 1), DigitChar(n % 10))

\* day d and month m written with wd and wm digits at least, and year y
SlashDateText(d, wd, m, wm, y) ==
    DecimalText(d, wd) \o <<"/">> \o DecimalText(m, wm) \o <<"/">>
        \o DecimalText(y, 4)

CalendarDates ==
    {dmy \in (1..31) \X (1..12) \X {2023, 2024} : dmy[1] <= DaysIn(dmy[2], dmy[3])}

\* the day/month/year texts of the calendar dates, each with its date
SlashDateTable ==
    {<<SlashDateText(dmy[1], w[1], dmy[2], w[2], dmy[3]),
       DaysFromCivil(dmy[3], dmy[2], dmy[1])>> :
        dmy \in CalendarDates, w \in {1, 2} \X {1, 2}}

SlashDateTexts == {e[1] : e \in SlashDateTable}

\* the text is a calendar date written day/month/year
IsSlashDateText(s) == s \in SlashDateTexts

\* the text is a decimal number: an optional sign, digits, at most one period
IsNumberText(s) ==
    LET body == IF s # <<>> /\ s[1] \in {"-", "+"} THEN Tail(s) ELSE s
    IN  /\ \A i \in 1..Len(body) : body[i] \in Digits \cup {"."}
        /\ Count(body, ".") <= 1
        /\ DigitCount(body) >= 1

SerialRange == {0, 1, 31, 131, 2024, 45363}

----------------------------------------------------------------------------
(* SpecSheet: the entry points of the readers                              *)
(*                                                                         *)
(* ParseBrouStatement and ParseItauStatement open a workbook, search the   *)
(* header row and extract the rows after it; ParseVisaItauStatement walks  *)
(* the pages of a PDF.  One step fetches one row or page.  A library call  *)
(* that panics is an outcome of the fetch: where the code has a recover()  *)
(* the loop goes on, elsewhere the panic leaves the call ("panicked").     *)
(* The cells of this machine carry no column names but the date keyword,   *)
(* so the columns other than the date column are not found.                *)

MaxSheets == 2
MaxSheetRows == 2
MaxPages == 2

\* for i := 0; i < maxRow && i < 100; i++
HeaderSearchLimit == 100

Fecha == <<"F", "e", "c", "h", "a">>
FechaPadded == <<" ", "F", "E", "C", "H", "A", " ">>
DateCell == <<"1", "0", "/", "0", "3", "/", "2", "0", "2", "4">>
TotalCell == <<"T", "o", "t", "a", "l">>

\* row.Col(colIdx) panics
ColPanic == <<"panic">>

CellTexts == {Fecha, FechaPadded, DateCell, PlainConcept, <<>>, ColPanic}

\* what fetching row i gives: sheet.Row(i) panics or returns nil,
\* row.LastCol() panics or returns 0, or a row of one or two cells
SheetUnits ==
    {[kind |-> k] : k \in {"rowPanic", "nil", "widthPanic", "width0"}}
    \cup {[kind |-> "cells", cells |-> cs] :
            cs \in [1..1 -> CellTexts] \cup [1..2 -> CellTexts]}

\* what fetching a page gives: a null page, page.Content() panics, or a page
\* with this many transaction lines
PageUnits ==
    {[kind |-> "nullPage"], [kind |-> "contentPanic"]}
    \cup {[kind |-> "page", lines |-> n] : n \in 0..1}

ErrOpenXls == "error opening XLS file"
ErrNoSheets == "no sheets found in XLS file"
ErrNoTransactionData == "no transaction data found in any sheet"
ErrBrouHeader == "could not find header row in BROU statement"
ErrFirstSheet == "could not get first sheet"
ErrItauHeader == "could not find header row in Itau statement"
ErrOpenPdf == "error opening PDF file"
ErrNoPdfTransactions == "no transactions found in PDF"

\* strings.EqualFold(cellStr, "fecha") of parseBrouSheet and
\* cellStr == "fecha" on the lowered text of ParseItauStatement
IsFecha(cell) == ToLower(TrimSpace(cell)) = ToLower(Fecha)

\* the columns (from 0) of the row whose cell reads "fecha"
FechaColumns(cells) == {c \in 0..(Len(cells) - 1) : IsFecha(cells[c + 1])}

SetMax(S) == CHOOSE x \in S : \A y \in S : y <= x

\* every group but the entry points
sheetFrame == <<amountVars, readerVars, reconcileVars, dateVars, entryVars,
                queryVars, requestVars, groupVars, fileVars>>

InitSheet ==
    /\ sheetEntry \in {"brou", "itau", "visa"}
    /\ sheetPc = "open"
    /\ numSheets = 0 /\ sheetIdx = 0 /\ maxRow = 0 /\ sheetI = 0
    /\ headerRow = -1 /\ dateCol = -1 /\ sheetUnit = NoRow /\ extracted = 0
    /\ parseErr = "" /\ keywordSeen = FALSE /\ headerSearched = FALSE
    /\ AmountIdle
    /\ ReaderIdle
    /\ ReconcileIdle
    /\ DateIdle
    /\ EntryIdle
    /\ QueryIdle
    /\ RequestIdle
    /\ GroupIdle
    /\ FileIdle

\* xls.OpenReader / pdf.NewReader and the sheet count test
OpenReader ==
    /\ sheetPc = "open"
    /\ \/ /\ parseErr' = IF sheetEntry = "visa" THEN ErrOpenPdf ELSE ErrOpenXls
          /\ sheetPc' = "returned"
          /\ UNCHANGED <<numSheets, sheetIdx>>
       \/ \E n \in 0..(IF sheetEntry = "visa" THEN MaxPages ELSE MaxSheets) :
            /\ numSheets' = n
            /\ IF sheetEntry = "visa"
               THEN sheetPc' = "pages" /\ sheetIdx' = 1 /\ UNCHANGED parseErr
               ELSE IF n = 0
               THEN /\ sheetPc' = "returned" /\ parseErr' = ErrNoSheets
                    /\ UNCHANGED sheetIdx
               ELSE sheetPc' = "sheet" /\ sheetIdx' = 0 /\ UNCHANGED parseErr
    /\ UNCHANGED <<sheetEntry, maxRow, sheetI, headerRow, dateCol, sheetUnit,
                   extracted, keywordSeen, headerSearched, sheetFrame>>

\* xlsFile.GetSheet(sheetIdx) and the start of the header search
GetSheet ==
    /\ sheetPc = "sheet"
    /\ sheetIdx < numSheets
    /\ \/ /\ IF sheetEntry = "brou"
             THEN /\ sheetIdx' = sheetIdx + 1
                  /\ UNCHANGED <<sheetPc, parseErr>>
             ELSE /\ sheetPc' = "returned" /\ parseErr' = ErrFirstSheet
                  /\ UNCHANGED sheetIdx
          /\ UNCHANGED <<maxRow, sheetI, headerRow, dateCol, extracted,
                         headerSearched>>
       \/ \E n \in 0..MaxSheetRows :
            /\ maxRow' = n
            /\ sheetI' = 0 /\ headerRow' = -1 /\ dateCol' = -1
            /\ extracted' = 0
            /\ headerSearched' = TRUE
            /\ sheetPc' = "header"
            /\ UNCHANGED <<sheetIdx, parseErr>>
    /\ UNCHANGED <<sheetEntry, numSheets, sheetUnit, keywordSeen, sheetFrame>>

\* ParseBrouStatement after the last sheet
NoTransactionData ==
    /\ sheetPc = "sheet"
    /\ sheetIdx >= numSheets
    /\ sheetPc' = "returned"
    /\ parseErr' = ErrNoTransactionData
    /\ UNCHANGED <<sheetEntry, numSheets, sheetIdx, maxRow, sheetI, headerRow,
                   dateCol, sheetUnit, extracted, keywordSeen, headerSearched,
                   sheetFrame>>

\* one iteration of the first pass
HeaderStep ==
    /\ sheetPc = "header"
    /\ sheetI < maxRow /\ sheetI < HeaderSearchLimit
    /\ \E u \in SheetUnits :
        /\ sheetUnit' = u
        /\ IF u.kind # "cells"
           THEN /\ sheetI' = sheetI + 1
                /\ UNCHANGED <<sheetPc, headerRow, dateCol, keywordSeen>>
           ELSE /\ keywordSeen' =
                      (keywordSeen \/
                       \E c \in 1..Len(u.cells) :
                           u.cells[c] # ColPanic /\ IsFecha(u.cells[c]))
                /\ IF \E c \in 1..Len(u.cells) : u.cells[c] = ColPanic
                   THEN /\ sheetPc' = "panicked"
                        /\ UNCHANGED <<sheetI, headerRow, dateCol>>
                   ELSE IF FechaColumns(u.cells) # {}
                   THEN /\ headerRow' = sheetI
                        /\ dateCol' = SetMax(FechaColumns(u.cells))
                        /\ sheetI' = sheetI + 1
                        /\ sheetPc' = "rows"
                   ELSE /\ sheetI' = sheetI + 1
                        /\ UNCHANGED <<sheetPc, headerRow, dateCol>>
    /\ UNCHANGED <<sheetEntry, numSheets, sheetIdx, maxRow, extracted, parseErr,
                   headerSearched, sheetFrame>>

\* the first pass ends with headerRow == -1
HeaderNotFound ==
    /\ sheetPc = "header"
    /\ ~(sheetI < maxRow /\ sheetI < HeaderSearchLimit)
    /\ IF sheetEntry = "brou"
       THEN /\ sheetIdx' = sheetIdx + 1
            /\ sheetPc' = "sheet"
            /\ UNCHANGED parseErr
       ELSE /\ sheetPc' = "returned"
            /\ parseErr' = ErrItauHeader
            /\ UNCHANGED sheetIdx
    /\ UNCHANGED <<sheetEntry, numSheets, maxRow, sheetI, headerRow, dateCol,
                   sheetUnit, extracted, keywordSeen, headerSearched,
                   sheetFrame>>

\* the text of the date cell breaks the second pass
StopsExtraction(entry, dateText) ==
    \/ dateText = <<>>
    \/ entry = "brou" /\ Contains(ToLower(dateText), ToLower(TotalCell))
    \/ entry = "itau" /\
       Contains(ToUpper(dateText),
                <<"S", "A", "L", "D", "O", " ", "F", "I", "N", "A", "L">>)

\* the row with this date text is appended to the statement
GivesTransaction(entry, dateText) ==
    /\ entry = "itau" => Contains(dateText, <<"/">>)
    /\ parseBrouDate(dateText).ok

\* one iteration of the second pass
DataStep ==
    /\ sheetPc = "rows"
    /\ sheetI < maxRow
    /\ \E u \in SheetUnits :
        /\ sheetUnit' = u
        /\ IF u.kind # "cells"
           THEN /\ sheetI' = sheetI + 1
                /\ UNCHANGED <<sheetPc, extracted, keywordSeen>>
           ELSE /\ keywordSeen' =
                      (keywordSeen \/
                       \E c \in 1..Len(u.cells) :
                           u.cells[c] # ColPanic /\ IsFecha(u.cells[c]))
                /\ IF dateCol < Len(u.cells) /\ u.cells[dateCol + 1] = ColPanic
                   THEN /\ sheetPc' = "panicked"
                        /\ UNCHANGED <<sheetI, extracted>>
                   ELSE LET dateText == IF dateCol < Len(u.cells)
                                        THEN TrimSpace(u.cells[dateCol + 1])
                                        ELSE <<>>
                        IN  IF StopsExtraction(sheetEntry, dateText)
                            THEN /\ sheetPc' = "rowsDone"
                                 /\ UNCHANGED <<sheetI, extracted>>
                            ELSE /\ sheetI' = sheetI + 1
                                 /\ extracted' =
                                       IF GivesTransaction(sheetEntry, dateText)
                                       THEN extracted + 1 ELSE extracted
                                 /\ UNCHANGED sheetPc
    /\ UNCHANGED <<sheetEntry, numSheets, sheetIdx, maxRow, headerRow, dateCol,
                   parseErr, headerSearched, sheetFrame>>

\* the second pass is over: the sheet's statement goes back to the entry point
SheetReturn ==
    /\ sheetPc = "rowsDone" \/ (sheetPc = "rows" /\ sheetI >= maxRow)
    /\ IF sheetEntry = "brou" /\ extracted = 0
       THEN /\ sheetIdx' = sheetIdx + 1
            /\ sheetPc' = "sheet"
       ELSE /\ sheetPc' = "returned"
            /\ UNCHANGED sheetIdx
    /\ UNCHANGED <<sheetEntry, numSheets, maxRow, sheetI, headerRow, dateCol,
                   sheetUnit, extracted, parseErr, keywordSeen, headerSearched,
                   sheetFrame>>

\* one iteration of the page loop
PageStep ==
    /\ sheetPc = "pages"
    /\ sheetIdx <= numSheets
    /\ \E u \in PageUnits :
        /\ sheetUnit' = u
        /\ IF u.kind = "contentPanic"
           THEN sheetPc' = "panicked" /\ UNCHANGED <<sheetIdx, extracted>>
           ELSE /\ sheetIdx' = sheetIdx + 1
                /\ extracted' = IF u.kind = "page" THEN extracted + u.lines
                                ELSE extracted
                /\ UNCHANGED sheetPc
    /\ UNCHANGED <<sheetEntry, numSheets, maxRow, sheetI, headerRow, dateCol,
                   parseErr, keywordSeen, headerSearched, sheetFrame>>

\* after the last page
PdfReturn ==
    /\ sheetPc = "pages"
    /\ sheetIdx > numSheets
    /\ sheetPc' = "returned"
    /\ parseErr' = IF extracted = 0 THEN ErrNoPdfTransactions ELSE ""
    /\ UNCHANGED <<sheetEntry, numSheets, sheetIdx, maxRow, sheetI, headerRow,
                   dateCol, sheetUnit, extracted, keywordSeen, headerSearched,
                   sheetFrame>>

NextSheet ==
    \/ OpenReader \/ GetSheet \/ NoTransactionData \/ HeaderStep
    \/ HeaderNotFound \/ DataStep \/ SheetReturn \/ PageStep \/ PdfReturn

SpecSheet == InitSheet /\ [][NextSheet]_vars

\* C12: a workbook none of whose rows has a date-keyword cell makes
\* ParseBrouStatement and ParseItauStatement return the header-not-found
\* error and no transactions, and that error is returned for no workbook
\* that has such a cell.
C12_HeaderNotFoundError ==
    (sheetPc = "returned" /\ sheetEntry \in {"brou", "itau"} /\ headerSearched)
        => /\ ~keywordSeen
              => /\ parseErr = IF sheetEntry = "brou" THEN ErrBrouHeader
                               ELSE ErrItauHeader
                 /\ extracted = 0
           /\ parseErr \in {ErrBrouHeader, ErrItauHeader} => ~keywordSeen

\* C16: no panic of the spreadsheet or PDF library leaves a parse call.
C16_NoPanicEscapes == sheetPc # "panicked"

----------------------------------------------------------------------------
(* SpecEntries: GetAccountForDescription and GenerateLedgerEntries         *)
(*                                                                         *)
(* An entry is kept as its parts: the date of its first line, the number   *)
(* in "(+N more)", its posting lines, each with the index of the           *)
(* transaction it was written from, and its counter-account line.  The     *)
(* groups are a Go map: the order in which their entries come out is any.  *)

MaxUnmatched == 2

ExpensesUnknown ==
    <<"E", "x", "p", "e", "n", "s", "e", "s", ":", "U", "n", "k", "n", "o",
      "w", "n">>

IncomeUnknown ==
    <<"I", "n", "c", "o", "m", "e", ":", "U", "n", "k", "n", "o", "w", "n">>

ExpensesFood ==
    <<"E", "x", "p", "e", "n", "s", "e", "s", ":", "F", "o", "o", "d">>

ExpensesUtilities ==
    <<"E", "x", "p", "e", "n", "s", "e", "s", ":", "U", "t", "i", "l", "i",
      "t", "i", "e", "s">>

ExpensesUnknownBills ==
    <<"E", "x", "p", "e", "n", "s", "e", "s", ":", "U", "n", "k", "n", "o",
      "w", "n", ":", "B", "i", "l", "l", "s">>

Unknown == <<"U", "n", "k", "n", "o", "w", "n">>

PagoLuz == <<"P", "A", "G", "O", " ", " ", "L", "U", "Z">>

\* the contents account_mappings.json may have
ConfigFiles ==
    {[found |-> FALSE, DescriptionMappings |-> <<>>],
     [found |-> TRUE,
      DescriptionMappings |->
        <<[Patterns |-> <<<<"x", "y", "z">>>>, Account |-> ExpensesFood],
          [Patterns |-> <<<<"p", "a", "g", "o", " ", "l", "u", "z">>,
                          <<"s", "u", "p", "e", "r">>>>,
           Account |-> ExpensesUtilities]>>],
     [found |-> TRUE,
      DescriptionMappings |->
        <<[Patterns |-> <<<<"l", "u", "z">>>>, Account |-> ExpensesUnknownBills],
          [Patterns |-> <<<<"x", "y", "z">>>>, Account |-> ExpensesFood]>>]}

\* the transactions the caller may pass
UnmatchedTxs ==
    {[Date |-> Day(dd), Account |-> a, Description |-> da[1],
      Debit |-> da[2], Credit |-> da[3]] :
        dd \in {10, 11}, a \in {"Assets:Bank:BROU", "Assets:Bank:Itau"},
        da \in {<<SupermercadoXyz, 103000, 0>>, <<PagoLuz, 103000, 0>>,
                <<PlainConcept, 103000, 0>>, <<PlainConcept, 0, 500000>>}}

\* LoadAccountMappings: the file's mappings, or an empty configuration
LoadAccountMappings(file) ==
    [loaded |-> TRUE,
     DescriptionMappings |-> IF file.found THEN file.DescriptionMappings ELSE <<>>]

RECURSIVE JoinWords(_)
JoinWords(ws) ==
    IF ws = <<>> THEN <<>>
    ELSE IF Len(ws) = 1 THEN ws[1]
    ELSE ws[1] \o <<" ">> \o JoinWords(Tail(ws))

\* normalizeWhitespace(s)
normalizeWhitespace(s) == JoinWords(Fields(s))

\* the mapping loop of GetAccountForDescription from mapping k on
RECURSIVE FirstMapping(_, _, _)
FirstMapping(mappings, descNormalized, k) ==
    IF k > Len(mappings) THEN 0
    ELSE IF \E q \in 1..Len(mappings[k].Patterns) :
                Contains(descNormalized,
                         ToUpper(normalizeWhitespace(mappings[k].Patterns[q])))
    THEN k
    ELSE FirstMapping(mappings, descNormalized, k + 1)

\* the account of the last mapping with a pattern in the description
GetAccountOfLastMapping(mappings, description, isExpense) ==
    LET descNormalized == ToUpper(normalizeWhitespace(description))
        hits == {k \in 1..Len(mappings) :
                    \E q \in 1..Len(mappings[k].Patterns) :
                        Contains(descNormalized,
                            ToUpper(normalizeWhitespace(mappings[k].Patterns[q])))}
    IN  IF hits # {}
        THEN mappings[CHOOSE k \in hits : \A j \in hits : j <= k].Account
        ELSE IF isExpense THEN ExpensesUnknown ELSE IncomeUnknown

\* GetAccountForDescription(description, isExpense) under the loaded mappings
GetAccountForDescription(mappings, description, isExpense) ==
    LET k == FirstMapping(mappings,
                          ToUpper(normalizeWhitespace(description)), 1)
    IN  IF k > 0 THEN mappings[k].Account
        ELSE IF isExpense THEN ExpensesUnknown ELSE IncomeUnknown

\* key := fmt.Sprintf("%s|%s|%s", tx.Date.Format("2006/01/02"), tx.Account,
\*                    counterAccount)
GroupKey(tx, counterAccount) == <<tx.Date, tx.Account, counterAccount>>

\* the first loop from transaction k on: the groups in the order their keys
\* were first seen, and the ungrouped transactions
\* counterAccount of every transaction of the first loop
CounterAccounts(mappings, txs) ==
    [k \in 1..Len(txs) |->
        GetAccountForDescription(mappings, txs[k].Description,
                                 NetAmount(txs[k]) < 0)]

RECURSIVE GroupLoop(_, _, _, _, _)
GroupLoop(counterAccounts, txs, k, groups, ungrouped) ==
    IF k > Len(txs) THEN [groups |-> groups, ungrouped |-> ungrouped]
    ELSE LET tx == txs[k]
             key == GroupKey(tx, counterAccounts[k])
             at == {g \in 1..Len(groups) : groups[g].key = key}
         IN  IF Contains(counterAccounts[k], Unknown)
             THEN GroupLoop(counterAccounts, txs, k + 1, groups,
                            Append(ungrouped, k))
             ELSE IF at = {}
             THEN GroupLoop(counterAccounts, txs, k + 1,
                      Append(groups, [key |-> key, Date |-> tx.Date,
                                      BankAccount |-> tx.Account,
                                      CounterAccount |-> counterAccounts[k],
                                      Transactions |-> <<k>>]),
                      ungrouped)
             ELSE GroupLoop(counterAccounts, txs, k + 1,
                      [groups EXCEPT ![SetMin(at)].Transactions = Append(@, k)],
                      ungrouped)

\* the entry of an ungrouped transaction
UngroupedEntry(txs, k) ==
    [date |-> txs[k].Date,
     more |-> 0,
     postings |-> <<[account |-> txs[k].Account, amount |-> NetAmount(txs[k]),
                     comment |-> FALSE, index |-> k]>>,
     counter |-> IF NetAmount(txs[k]) < 0 THEN ExpensesUnknown
                 ELSE IncomeUnknown]

\* the entry of a group
GroupEntry(txs, group) ==
    [date |-> group.Date,
     more |-> Len(group.Transactions) - 1,
     postings |->
        [q \in 1..Len(group.Transactions) |->
            [account |-> group.BankAccount,
             amount |-> NetAmount(txs[group.Transactions[q]]),
             comment |-> Len(group.Transactions) > 1,
             index |-> group.Transactions[q]]],
     counter |-> group.CounterAccount]

\* every group but GenerateLedgerEntries
entryFrame == <<amountVars, readerVars, reconcileVars, dateVars, sheetVars,
                queryVars, requestVars, groupVars, fileVars>>

InitEntries ==
    /\ configFile \in ConfigFiles
    /\ accountMappings = NilMappings
    /\ unmatchedTransactions \in SeqsUpTo(UnmatchedTxs, MaxUnmatched)
    /\ entries = <<>>
    /\ entriesPc = "call"
    /\ AmountIdle
    /\ ReaderIdle
    /\ ReconcileIdle
    /\ DateIdle
    /\ SheetIdle
    /\ QueryIdle
    /\ RequestIdle
    /\ GroupIdle
    /\ FileIdle

\* GenerateLedgerEntries(unmatchedTransactions) runs to its return
GenerateLedgerEntries ==
    /\ entriesPc = "call"
    /\ accountMappings' =
          IF unmatchedTransactions # <<>> /\ ~accountMappings.loaded
          THEN LoadAccountMappings(configFile) ELSE accountMappings
    /\ \E counterAccounts \in
              {CounterAccounts(accountMappings'.DescriptionMappings,
                               unmatchedTransactions)} :
       \E r \in {GroupLoop(counterAccounts, unmatchedTransactions, 1,
                           <<>>, <<>>)} :
           \E order \in Permutations(1..Len(r.groups)) :
              entries' =
                  [q \in 1..Len(r.ungrouped) |->
                      UngroupedEntry(unmatchedTransactions, r.ungrouped[q])]
                  \o [q \in 1..Len(r.groups) |->
                      GroupEntry(unmatchedTransactions, r.groups[order[q]])]
    /\ entriesPc' = "done"
    /\ UNCHANGED <<configFile, unmatchedTransactions, entryFrame>>

NextEntries == GenerateLedgerEntries

SpecEntries == InitEntries /\ [][NextEntries]_vars

\* the counter-account GetAccountForDescription resolves for transaction k
ResolvedAccount(k) ==
    GetAccountForDescription(accountMappings.DescriptionMappings,
        unmatchedTransactions[k].Description,
        unmatchedTransactions[k].Credit - unmatchedTransactions[k].Debit < 0)

\* the posting lines written from transaction k
PostingsOf(k) ==
    {eq \in UNION {{<<e, q>> : q \in 1..Len(entries[e].postings)} :
                      e \in 1..Len(entries)} :
        /\ entries[eq[1]].postings[eq[2]].index = k
        /\ entries[eq[1]].postings[eq[2]].account = unmatchedTransactions[k].Account
        /\ entries[eq[1]].postings[eq[2]].amount =
              unmatchedTransactions[k].Credit - unmatchedTransactions[k].Debit
        /\ entries[eq[1]].date = unmatchedTransactions[k].Date}

EntryOf(k) == (CHOOSE eq \in PostingsOf(k) : TRUE)[1]

SameGroup(j, k) ==
    /\ unmatchedTransactions[j].Date = unmatchedTransactions[k].Date
    /\ unmatchedTransactions[j].Account = unmatchedTransactions[k].Account
    /\ ResolvedAccount(j) = ResolvedAccount(k)

\* the resolved account is not one of the two defaults
IsNotDefault(k) == ResolvedAccount(k) \notin {ExpensesUnknown, IncomeUnknown}

\* the entries are those of the grouping rule, known(k) saying which
\* transactions are grouped
GroupedEntries(known(_)) ==
    LET txIndices == 1..Len(unmatchedTransactions)
    IN  /\ \A k \in txIndices : Cardinality(PostingsOf(k)) = 1
        /\ \A e \in 1..Len(entries) :
              /\ entries[e].postings # <<>>
              /\ \A q \in 1..Len(entries[e].postings) :
                    entries[e].postings[q].index \in txIndices
        /\ \A j \in txIndices, k \in txIndices :
              (known(j) /\ known(k)) =>
                  (SameGroup(j, k) <=> EntryOf(j) = EntryOf(k))
        /\ \A k \in txIndices :
              IF known(k)
              THEN entries[EntryOf(k)].counter = ResolvedAccount(k)
              ELSE Len(entries[EntryOf(k)].postings) = 1
        /\ (Len(unmatchedTransactions) = 2 /\ known(1) /\ known(2) /\
            SameGroup(1, 2))
              => Len(entries) = 1 /\ Len(entries[1].postings) = 2

\* C13: every transaction is on one posting line of one entry;
\* the transactions resolved to an account other than the defaults that
\* share date, bank account and counter-account are one entry, with one
\* posting line each and then the counter-account line; the others have an
\* entry each.
C13_GroupedByDateAccountCounter ==
    entriesPc = "done" => GroupedEntries(IsNotDefault)

\* the debit and credit of tx are not negative and not both different from 0
OneSidedAmounts(tx) ==
    /\ ~IsNegative(tx.Debit)
    /\ ~IsNegative(tx.Credit)
    /\ tx.Debit[1] = 0 \/ tx.Credit[1] = 0

AllOneSided(st) ==
    \A i \in 1..Len(st.Transactions) : OneSidedAmounts(st.Transactions[i])

\* C14: every transaction a reader (BROU sheet, Itau sheet, CSV, Visa PDF) puts
\* in a statement has Debit >= 0 and Credit >= 0, and at most one of the two is
\* different from 0.
C14_OneSidedNonNegative == AllOneSided(statement) /\ AllOneSided(dollarStatement)

-----------------------------------------------------------------------------
(* SpecQuery: LedgerExec, QueryLedgerTransactions and the handler's use of  *)
(* what they return                                                        *)

MaxOutputLines == 2

\* err.Error() of shellwords.Parse
InvalidCommandLine ==
    <<"i", "n", "v", "a", "l", "i", "d", " ", "c", "o", "m", "m", "a", "n", "d", " ", "l", "i", "n", "e", " ", "s", "t", "r", "i", "n", "g">>

\* lines the ledger command prints: two register lines in the format asked
\* for, a register line with a one-digit month, an error message, a blank line
LedgerLines ==
    {<<"2", "0", "2", "4", "/", "0", "3", "/", "1", "0", " ", "$", "5", "0", "0">>,
     <<"2", "0", "2", "4", "-", "0", "3", "-", "1", "2", " ", "-", "1", "0", "0">>,
     <<"2", "0", "2", "4", "/", "3", "/", "1", "0", " ", "7">>,
     <<"E", "r", "r", "o", "r", ":", " ", "x">>,
     <<>>}

\* the query does not parse, or the command runs, prints lines and exits
LedgerRuns ==
    {[parseError |-> TRUE, exitError |-> FALSE, lines |-> <<>>]}
    \cup {[parseError |-> FALSE, exitError |-> e, lines |-> l] :
            e \in BOOLEAN, l \in SeqsUpTo(LedgerLines, MaxOutputLines)}

DateSeparators == {"/", "-"}

\* dateRegex.FindStringSubmatch(line) for ^(\d{4}[/-]\d{1,2}[/-]\d{1,2})\s+(.+)$
\* on a trimmed line: [ok, date, amount]
DateRegexMatch(line) ==
    LET fits(a, b) ==
            /\ Len(line) >= 8 + a + b
            /\ AllDigits(SubSeq(line, 1, 4)) /\ line[5] \in DateSeparators
            /\ AllDigits(SubSeq(line, 6, 5 + a))
            /\ line[6 + a] \in DateSeparators
            /\ AllDigits(SubSeq(line, 7 + a, 6 + a + b))
            /\ line[7 + a + b] = " "
        widths == {ab \in (1..2) \X (1..2) : fits(ab[1], ab[2])}
    IN  IF widths = {} THEN [ok |-> FALSE, date |-> <<>>, amount |-> <<>>]
        ELSE LET ab == CHOOSE w \in widths : TRUE
                 n == 6 + ab[1] + ab[2]
             IN  [ok |-> TRUE, date |-> SubSeq(line, 1, n),
                  amount |-> SubSeq(line, n + 1, Len(line))]

\* time.Parse("2006" sep "01" sep "02", s): [ok, date]
ParseYMD(s, sep) ==
    IF /\ Len(s) = 10 /\ s[5] = sep /\ s[8] = sep
       /\ AllDigits(SubSeq(s, 1, 4)) /\ AllDigits(SubSeq(s, 6, 7))
       /\ AllDigits(SubSeq(s, 9, 10))
    THEN LET y == Atoi(SubSeq(s, 1, 4), 0)
             m == Atoi(SubSeq(s, 6, 7), 0)
             dd == Atoi(SubSeq(s, 9, 10), 0)
         IN  IF m \in 1..12 /\ dd >= 1 /\ dd <= DaysIn(m, y)
             THEN [ok |-> TRUE, date |-> DaysFromCivil(y, m, dd)]
             ELSE [ok |-> FALSE, date |-> 0]
    ELSE [ok |-> FALSE, date |-> 0]

\* the layout loop of QueryLedgerTransactions
ParseLedgerDate(s) ==
    IF ParseYMD(s, "/").ok THEN ParseYMD(s, "/") ELSE ParseYMD(s, "-")

\* the text fmt.Sscanf("%f") reads: the digits and at most one period
RECURSIVE NumberPrefix(_, _)
NumberPrefix(s, sawdot) ==
    IF s = <<>> THEN <<>>
    ELSE IF Head(s) \in Digits THEN <<Head(s)>> \o NumberPrefix(Tail(s), sawdot)
    ELSE IF Head(s) = "." /\ ~sawdot THEN <<".">> \o NumberPrefix(Tail(s), TRUE)
    ELSE <<>>

\* parseLedgerAmount(amountStr)
parseLedgerAmount(s) ==
    LET t == ReplaceAll(ReplaceAll(RemoveUS(ReplaceAll(TrimSpace(s), "$", <<>>)),
                                   " ", <<>>), ",", <<>>)
        text == IF t # <<>> /\ Head(t) \in {"+", "-"}
                THEN <<Head(t)>> \o NumberPrefix(Tail(t), FALSE)
                ELSE NumberPrefix(t, FALSE)
        r == ParseFloat(text)
    IN  IF r.ok THEN r.val ELSE Zero

\* one pass of the line loop of QueryLedgerTransactions: the transaction the
\* line gives, if it gives one
LineTransaction(rawLine) ==
    LET line == TrimSpace(rawLine)
        matches == DateRegexMatch(line)
        date == ParseLedgerDate(matches.date)
    IN  IF line = <<>> \/ ~matches.ok \/ ~date.ok THEN <<>>
        ELSE <<[Date |-> date.date,
                Amount |-> parseLedgerAmount(TrimSpace(matches.amount))]>>

RECURSIVE ParseLedgerOutput(_)
ParseLedgerOutput(lines) ==
    IF lines = <<>> THEN <<>>
    ELSE LineTransaction(Head(lines)) \o ParseLedgerOutput(Tail(lines))

queryFrame == <<amountVars, readerVars, reconcileVars, dateVars, sheetVars,
                entryVars, requestVars, groupVars, fileVars>>

InitQuery ==
    /\ ledgerRun \in LedgerRuns
    /\ execOutput = <<>> /\ queryTxs = <<>> /\ queryErr = ""
    /\ queryResponse = "none" /\ queryPc = "exec"
    /\ AmountIdle
    /\ ReaderIdle
    /\ ReconcileIdle
    /\ DateIdle
    /\ SheetIdle
    /\ EntryIdle
    /\ RequestIdle
    /\ GroupIdle
    /\ FileIdle

\* LedgerExec(ledger, query): the error text of a query that does not parse,
\* else what the command printed, whatever its exit status
LedgerExec ==
    /\ queryPc = "exec"
    /\ execOutput' = IF ledgerRun.parseError THEN <<InvalidCommandLine>>
                     ELSE ledgerRun.lines
    /\ queryPc' = "parse"
    /\ UNCHANGED <<ledgerRun, queryTxs, queryErr, queryResponse, queryFrame>>

\* the rest of QueryLedgerTransactions: every return gives a nil error
QueryLedgerTransactions ==
    /\ queryPc = "parse"
    /\ queryTxs' = IF execOutput = <<>> \/ execOutput = << <<>> >> THEN <<>>
                   ELSE ParseLedgerOutput(execOutput)
    /\ queryErr' = ""
    /\ queryPc' = "respond"
    /\ UNCHANGED <<ledgerRun, execOutput, queryResponse, queryFrame>>

\* handleReconcileUpload after the query: an error response if err != nil,
\* else ReconcileBankStatement(statement, ledgerTransactions)
HandleQueryResult ==
    /\ queryPc = "respond"
    /\ queryResponse' = IF queryErr # "" THEN "error" ELSE "reconciled"
    /\ queryPc' = "responded"
    /\ UNCHANGED <<ledgerRun, execOutput, queryTxs, queryErr, queryFrame>>

NextQuery == LedgerExec \/ QueryLedgerTransactions \/ HandleQueryResult

SpecQuery == InitQuery /\ [][NextQuery]_vars

\* the ledger query failed: it did not parse, the command exited with an
\* error, or no line of its output gives a transaction
QueryFailed ==
    \/ ledgerRun.parseError
    \/ ledgerRun.exitError
    \/ \A i \in 1..Len(ledgerRun.lines) : LineTransaction(ledgerRun.lines[i]) = <<>>

\* C15: when the ledger query fails, QueryLedgerTransactions returns a non-nil
\* error and the handler answers with that error instead of reconciling.
C15_QueryFailureReported ==
    (queryPc = "responded" /\ QueryFailed)
        => queryErr # "" /\ queryResponse = "error"

-----------------------------------------------------------------------------
(* SpecRequests: handleReconcileUpload serving several uploads at once, one *)
(* goroutine per request, and the package variable accountMappings          *)

NumRequests == 2

Requests == 1..NumRequests

requestFrame == <<amountVars, readerVars, reconcileVars, dateVars, sheetVars,
                  queryVars, groupVars, fileVars>>

InitRequests ==
    /\ reqPc = [r \in Requests |-> "start"]
    /\ reqTodo = [r \in Requests |-> 0]
    /\ reqAccess = [r \in Requests |-> "none"]
    /\ configFile \in ConfigFiles
    /\ accountMappings = NilMappings
    /\ unmatchedTransactions = <<>> /\ entries = <<>> /\ entriesPc = "idle"
    /\ AmountIdle
    /\ ReaderIdle
    /\ ReconcileIdle
    /\ DateIdle
    /\ SheetIdle
    /\ QueryIdle
    /\ GroupIdle
    /\ FileIdle

\* the handler up to the call GenerateLedgerEntries(result.UnmatchedBank): the
\* upload, the statement, the ledger transactions and the result are values of
\* the request; n is len(result.UnmatchedBank)
ReconcileUpload(r) ==
    /\ reqPc[r] = "start"
    /\ \E n \in 0..MaxUnmatched :
        /\ reqTodo' = [reqTodo EXCEPT ![r] = n]
        /\ reqPc' = [reqPc EXCEPT ![r] = IF n = 0 THEN "done" ELSE "check"]
    /\ UNCHANGED <<reqAccess, entryVars, requestFrame>>

\* GetAccountForDescription: if accountMappings == nil
CheckMappings(r) ==
    /\ reqPc[r] = "check"
    /\ reqPc' = [reqPc EXCEPT
                    ![r] = IF accountMappings.loaded THEN "scan" ELSE "load"]
    /\ reqAccess' = [reqAccess EXCEPT
                        ![r] = IF @ = "write" THEN "write" ELSE "read"]
    /\ UNCHANGED <<reqTodo, entryVars, requestFrame>>

\* LoadAccountMappings() called from GetAccountForDescription
LoadMappings(r) ==
    /\ reqPc[r] = "load"
    /\ accountMappings' = LoadAccountMappings(configFile)
    /\ reqPc' = [reqPc EXCEPT ![r] = "scan"]
    /\ reqAccess' = [reqAccess EXCEPT ![r] = "write"]
    /\ UNCHANGED <<reqTodo, configFile, unmatchedTransactions, entries,
                   entriesPc, requestFrame>>

\* GetAccountForDescription: the loop over accountMappings.DescriptionMappings
\* for one transaction, then the next transaction or the rendering
ScanMappings(r) ==
    /\ reqPc[r] = "scan"
    /\ reqTodo' = [reqTodo EXCEPT ![r] = @ - 1]
    /\ reqPc' = [reqPc EXCEPT ![r] = IF reqTodo[r] = 1 THEN "done" ELSE "check"]
    /\ reqAccess' = [reqAccess EXCEPT
                        ![r] = IF @ = "write" THEN "write" ELSE "read"]
    /\ UNCHANGED <<entryVars, requestFrame>>

NextRequests ==
    \E r \in Requests :
        \/ ReconcileUpload(r)
        \/ CheckMappings(r)
        \/ LoadMappings(r)
        \/ ScanMappings(r)

SpecRequests == InitRequests /\ [][NextRequests]_vars

\* C17: two concurrent requests share no mutable state: a variable one request
\* has written is neither read nor written by another request (in particular
\* accountMappings is not written during a request).
C17_NoSharedMutableState ==
    \A r \in DOMAIN reqAccess : \A q \in DOMAIN reqAccess :
        (r # q /\ reqAccess[r] = "write") => reqAccess[q] = "none"

-----------------------------------------------------------------------------
(* The second pass of ReconcileBankStatement, continued                     *)

\* ledger transaction li qualifies as a candidate of bank transaction b in the
\* second pass of the version that runs
QualifiesAsCandidate(b, li) ==
    IF variant = "part_003" THEN FuzzyAcceptable(b, li)
    ELSE DaysApart(b, li) <= 2 /\ AmountsApart(b, li) < 1

\* the score that version gives the pair
CandidateScore(b, li) ==
    IF variant = "part_003" THEN WeightedScore(b, li)
    ELSE RatSub(One, Rat(DaysApart(b, li), 3))

\* C18: a fuzzy match pairs the bank transaction with a candidate of maximal
\* score: no ledger transaction that was still unmatched at its turn and
\* qualifies as its candidate has a higher score than the recorded one.
C18_FuzzyTakesMaximalScore ==
    Done =>
        \A k \in MatchIndices :
            result.Matches[k].MatchType = "fuzzy" =>
                \A li \in LedgerIndices :
                    (/\ FreeInFuzzyPass(result.Matches[k].bank, li)
                     /\ QualifiesAsCandidate(result.Matches[k].bank, li))
                        => ~RatLess(result.Matches[k].MatchScore,
                                    CandidateScore(result.Matches[k].bank, li))

\* ledger transaction li passes the test of the first pass against bank
\* transaction b in the version that runs
IsExactCounterpart(b, li) ==
    IF variant = "part_003"
    THEN DaysApart(b, li) <= 3 /\ AmountsApart(b, li) < 10
    ELSE DaysApart(b, li) = 0 /\ AmountsApart(b, li) < 1

FuzzyMatches == {k \in MatchIndices : result.Matches[k].MatchType = "fuzzy"}

ExactMatches == {k \in MatchIndices : result.Matches[k].MatchType = "exact"}

-----------------------------------------------------------------------------
(* The dates a statement reports, continued                                 *)

\* StartDate is the least and EndDate the greatest date of the transactions of
\* st, each the date of one of them; a statement without transactions reports
\* no dates
SpanIsMinMax(st) ==
    IF st.Transactions = <<>>
    THEN IsZero(st.StartDate) /\ IsZero(st.EndDate)
    ELSE /\ \E i \in 1..Len(st.Transactions) :
                st.Transactions[i].Date = st.StartDate
         /\ \E i \in 1..Len(st.Transactions) :
                st.Transactions[i].Date = st.EndDate
         /\ \A i \in 1..Len(st.Transactions) :
                /\ st.StartDate <= st.Transactions[i].Date
                /\ st.Transactions[i].Date <= st.EndDate

\* C20: in every statement a reader builds, StartDate is the minimum and
\* EndDate the maximum of the dates of its transactions, each the date of a
\* transaction it contains; this holds for the peso and the dollar statement
\* of the card reader too, payment lines included.
C20_SpanIsMinMaxOfDates ==
    SpanIsMinMax(statement) /\ SpanIsMinMax(dollarStatement)

-----------------------------------------------------------------------------
(* Row extraction of the sheet readers, continued                           *)

\* the row has no cells at all, its date cell is empty, or its date cell holds
\* the termination keyword of the reader
EndsExtraction(rd, r) ==
    \/ r.kind = "nil"
    \/ /\ r.kind = "cells"
       /\ \/ TrimSpace(r.date) = <<>>
          \/ rd = "brou" /\ Contains(ToLower(TrimSpace(r.date)),
                                     <<"t", "o", "t", "a", "l">>)
          \/ rd = "itau" /\ Contains(ToUpper(TrimSpace(r.date)),
                 <<"S", "A", "L", "D", "O", " ", "F", "I", "N", "A", "L">>)

\* the row is marked as the opening balance
IsOpeningBalance(r) ==
    /\ r.kind = "cells"
    /\ Contains(ToUpper(TrimSpace(r.concept)),
           <<"S", "A", "L", "D", "O", " ", "A", "N", "T", "E", "R", "I", "O", "R">>)

\* C21: in the sheet readers, a row read after a row that has no cells, an
\* empty date cell or the termination keyword gives no transaction; a row
\* marked SALDO ANTERIOR gives no transaction and does not stop the extraction.
C21_NothingAfterEndRow ==
    [][(reader \in {"brou", "itau"} /\ rowIndex' = rowIndex + 1)
          => /\ EndsExtraction(reader, row)
                  => statement'.Transactions = statement.Transactions
             /\ (reader = "itau" /\ IsOpeningBalance(row') /\
                 ~EndsExtraction(reader, row') /\ Contains(row'.date, <<"/">>))
                  => /\ statement'.Transactions = statement.Transactions
                     /\ readerPc' = readerPc]_vars

\* C22: ParseBankStatementCSV stops at the first data row whose date cell is
\* empty: a row read after such a row gives no transaction.
C22_CsvStopsAtEmptyDate ==
    [][(/\ reader = "csv" /\ rowIndex' = rowIndex + 1
        /\ row.kind = "cells" /\ TrimSpace(row.date) = <<>>)
          => statement'.Transactions = statement.Transactions]_vars

-----------------------------------------------------------------------------
(* SpecLines: ParseVisaItauStatement groups the text runs of a page into    *)
(* lines                                                                   *)

MaxRuns == 3

\* the text runs of a page, by position
PageRuns == {[X |-> x, Y |-> y] : x \in {0, 1}, y \in 0..7}

\* the less function of the sort: Y descending, then X ascending
RunBefore(a, b) == IF a.Y # b.Y THEN a.Y > b.Y ELSE a.X < b.X

SortedRuns(ts) ==
    \A i \in 1..Len(ts) : \A j \in 1..Len(ts) :
        i < j => ~RunBefore(ts[j], ts[i])

\* the new line threshold
LineThreshold == 3

groupFrame == <<amountVars, readerVars, reconcileVars, dateVars, sheetVars,
                entryVars, queryVars, requestVars, fileVars>>

InitLines ==
    /\ pageTexts \in SeqsUpTo(PageRuns, MaxRuns)
    /\ textIdx = 0 /\ curLine = NoLine /\ pageLines = <<>>
    /\ groupPc = "sort"
    /\ AmountIdle
    /\ ReaderIdle
    /\ ReconcileIdle
    /\ DateIdle
    /\ SheetIdle
    /\ EntryIdle
    /\ QueryIdle
    /\ RequestIdle
    /\ FileIdle

\* sort.Slice(texts, ...)
SortTexts ==
    /\ groupPc = "sort"
    /\ \E f \in Permutations(1..Len(pageTexts)) :
          /\ SortedRuns([i \in 1..Len(pageTexts) |-> pageTexts[f[i]]])
          /\ pageTexts' = [i \in 1..Len(pageTexts) |-> pageTexts[f[i]]]
    /\ groupPc' = "group"
    /\ UNCHANGED <<textIdx, curLine, pageLines, groupFrame>>

\* one iteration of the grouping loop
GroupStep ==
    /\ groupPc = "group" /\ textIdx < Len(pageTexts)
    /\ LET t == pageTexts[textIdx + 1]
       IN  IF curLine.y < 0
           THEN /\ curLine' = [y |-> t.Y, texts |-> <<t>>]
                /\ UNCHANGED pageLines
           ELSE IF curLine.y - t.Y > LineThreshold
           THEN /\ pageLines' = IF Len(curLine.texts) > 0
                                THEN Append(pageLines, curLine) ELSE pageLines
                /\ curLine' = [y |-> t.Y, texts |-> <<t>>]
           ELSE /\ curLine' = [curLine EXCEPT !.texts = Append(@, t)]
                /\ UNCHANGED pageLines
    /\ textIdx' = textIdx + 1
    /\ UNCHANGED <<pageTexts, groupPc, groupFrame>>

\* after the loop: the line under construction is appended
GroupEnd ==
    /\ groupPc = "group" /\ textIdx = Len(pageTexts)
    /\ pageLines' = IF Len(curLine.texts) > 0
                    THEN Append(pageLines, curLine) ELSE pageLines
    /\ groupPc' = "done"
    /\ UNCHANGED <<pageTexts, textIdx, curLine, groupFrame>>

NextLines == SortTexts \/ GroupStep \/ GroupEnd

SpecLines == InitLines /\ [][NextLines]_vars

\* the number of runs in the lines before line k
RECURSIVE RunsBefore(_)
RunsBefore(k) ==
    IF k <= 1 THEN 0 ELSE RunsBefore(k - 1) + Len(pageLines[k - 1].texts)

\* run i of the sorted runs is the first run of a line
StartsLine(i) == \E k \in 1..Len(pageLines) : RunsBefore(k) + 1 = i

\* C23: when the runs of a page are grouped, a run starts a new line exactly
\* when it lies more than 3 units below the run before it in the sorted order.
C23_NewLineAtGapOverThree ==
    groupPc = "done" =>
        \A i \in 2..Len(pageTexts) :
            StartsLine(i) <=> pageTexts[i - 1].Y - pageTexts[i].Y > 3

-----------------------------------------------------------------------------
(* the PAGOS line of the credit-card statement (SpecReader)                 *)

\* the line carries a peso payment and a dollar payment
PagosCase(l) ==
    /\ l.kind = "line"
    /\ Contains(ToUpper(l.description), <<"P", "A", "G", "O", "S">>)
    /\ Len(l.amounts) >= 2
    /\ l.secondLastEnd < PesoColumnEnd

\* the amount k places before the end of the line's amounts
PagosAmount(l, k) == parseVisaAmount(l.amounts[Len(l.amounts) - k])

\* the transaction the line is to give for an amount
PagosTransaction(l, amt) ==
    [Date |-> DaysFromCivil(l.date[3] + 2000, l.date[2], l.date[1]),
     Description |-> l.description,
     Debit |-> IF amt[1] > 0 THEN amt ELSE Zero,
     Credit |-> IF amt[1] < 0 THEN Neg(amt) ELSE Zero]

\* C24 (as stated): a PAGOS line with at least two amounts whose
\* second-to-last amount ends before column 95 gives exactly two transactions
\* with the line's date and description, a peso one from the second-to-last
\* amount and a dollar one from the last, a negative amount as credit of its
\* absolute value and a positive one as debit.
C24_PagosYieldsTwo ==
    [][(reader = "visa" /\ rowIndex' = rowIndex + 1 /\ PagosCase(row'))
          => /\ statement'.Transactions =
                   Append(statement.Transactions,
                          PagosTransaction(row', PagosAmount(row', 1)))
             /\ dollarStatement'.Transactions =
                   Append(dollarStatement.Transactions,
                          PagosTransaction(row', PagosAmount(row', 0)))]_vars

\* C24 (amended): on such a line each of the two amounts that is not zero
\* gives its transaction, the second-to-last the peso one and the last the
\* dollar one, with the line's date and description and the sign rule of the
\* claim; an amount of zero gives no transaction.
C24_PagosYieldsNonZero ==
    [][(reader = "visa" /\ rowIndex' = rowIndex + 1 /\ PagosCase(row'))
          => /\ statement'.Transactions =
                   IF PagosAmount(row', 1) # Zero
                   THEN Append(statement.Transactions,
                               PagosTransaction(row', PagosAmount(row', 1)))
                   ELSE statement.Transactions
             /\ dollarStatement'.Transactions =
                   IF PagosAmount(row', 0) # Zero
                   THEN Append(dollarStatement.Transactions,
                               PagosTransaction(row', PagosAmount(row', 0)))
                   ELSE dollarStatement.Transactions]_vars

\* a PAGOS line with a negative peso amount and a positive dollar amount
\* has given a peso credit and a dollar debit
C24_Witness ==
    /\ reader = "visa" /\ rowIndex = 1 /\ PagosCase(row)
    /\ PagosAmount(row, 1)[1] < 0 /\ PagosAmount(row, 0)[1] > 0
    /\ statement.Transactions =
           <<PagosTransaction(row, PagosAmount(row, 1))>>
    /\ dollarStatement.Transactions =
           <<PagosTransaction(row, PagosAmount(row, 0))>>
    /\ statement.Transactions[1].Debit = Zero
    /\ dollarStatement.Transactions[1].Credit = Zero

-----------------------------------------------------------------------------
(* parentheses as the negative sign (SpecAmount)                           *)

\* "(" + v + ")"
InParens(v) == <<"(">> \o v \o <<")">>

HasParenthesis(v) == \E i \in 1..Len(v) : v[i] \in {"(", ")"}

-----------------------------------------------------------------------------
(* the account of a description (SpecEntries)                              *)

\* the rules of the mapping file, none when no file could be loaded
ConfiguredRules ==
    IF configFile.found THEN configFile.DescriptionMappings ELSE <<>>

\* upper-casing and whitespace collapsing
Normalized(s) == ToUpper(normalizeWhitespace(s))

\* for every mapping file and description, the rules of the file that have a
\* pattern contained in the description
RuleHits ==
    [f \in ConfigFiles |->
        [ds \in {tx.Description : tx \in UnmatchedTxs} |->
            {r \in 1..Len(f.DescriptionMappings) :
                /\ f.found
                /\ \E q \in 1..Len(f.DescriptionMappings[r].Patterns) :
                      Contains(Normalized(ds),
                               Normalized(f.DescriptionMappings[r].Patterns[q]))}]]

\* the rules that have a pattern contained in the description of transaction k
MatchingRules(k) == RuleHits[configFile][unmatchedTransactions[k].Description]

\* the account the rules give transaction k
RuleAccount(k) ==
    IF MatchingRules(k) # {}
    THEN ConfiguredRules[CHOOSE r \in MatchingRules(k) :
                            \A o \in MatchingRules(k) : r <= o].Account
    ELSE IF unmatchedTransactions[k].Credit - unmatchedTransactions[k].Debit < 0
    THEN ExpensesUnknown
    ELSE IncomeUnknown

\* C26: GetAccountForDescription returns the account of the first rule, in
\* configuration order, that has a pattern contained in the description after
\* upper-casing and whitespace collapsing of both; when no rule matches, or no
\* mapping file could be loaded, it returns Expenses:Unknown for a negative net
\* amount and Income:Unknown otherwise.  An entry of grouped transactions
\* carries the returned account as its counter-account.
C26_FirstMatchingRuleOrDefault ==
    entriesPc = "done" =>
        \A k \in 1..Len(unmatchedTransactions) :
            /\ ResolvedAccount(k) = RuleAccount(k)
            /\ ~Contains(RuleAccount(k), Unknown)
                  => \E e \in 1..Len(entries) :
                        /\ entries[e].counter = RuleAccount(k)
                        /\ \E q \in 1..Len(entries[e].postings) :
                              entries[e].postings[q].index = k

\* a description two rules match has been given the account of the first, and
\* a description no rule matches the default of its sign
C26_Witness ==
    /\ entriesPc = "done"
    /\ Len(unmatchedTransactions) = 2
    /\ Cardinality(MatchingRules(1)) = 2
    /\ ResolvedAccount(1) = ExpensesFood
    /\ entries[Len(entries)].counter = ExpensesFood
    /\ MatchingRules(2) = {}
    /\ ResolvedAccount(2) = IncomeUnknown

-----------------------------------------------------------------------------
(* SpecLedgerFile: ParseLedgerTransactions reads the lines of a ledger file *)
(* for one account                                                         *)

MaxFileLines == 3

\* the account asked for
LedgerAccount == <<"A", "s", "s", "e", "t", "s", ":", "B", "a", "n", "k">>

\* lines of a ledger file: two date lines, a date line whose date is no day
\* of the calendar, a posting of the account, one of a sub-account, one of
\* another account, a blank line
FileLineSet ==
    {<<"2", "0", "2", "4", "/", "0", "3", "/", "1", "0", " ", "S", "u",
       "p", "e", "r">>,
     <<"2", "0", "2", "4", "-", "3", "-", "1", "2", " ", "L", "u", "z">>,
     <<"2", "0", "2", "4", "/", "0", "2", "/", "3", "1", " ", "G", "a",
       "s">>,
     <<" ", " ", "A", "s", "s", "e", "t", "s", ":", "B", "a", "n", "k",
       " ", " ", "$", "5", "0", "0">>,
     <<" ", " ", "A", "s", "s", "e", "t", "s", ":", "B", "a", "n", "k",
       ":", "B", "R", "O", "U", " ", " ", "-", "7">>,
     <<" ", " ", "E", "x", "p", "e", "n", "s", "e", "s", ":", "F", "o",
       "o", "d", " ", " ", "$", "5">>,
     <<>>}

\* \w of the regular expressions
WordChars ==
    Digits \cup {"_"} \cup {UpperLetters[i] : i \in 1..26}
           \cup {LowerLetters[i] : i \in 1..26}

\* [\$US\-\d\.,\s] of accountRegex
AmountChars == Digits \cup {"$", "U", "S", "-", ".", ",", " "}

\* the longest prefix of s made of characters of cs
RECURSIVE PrefixOf(_, _)
PrefixOf(s, cs) ==
    IF s = <<>> \/ Head(s) \notin cs THEN <<>>
    ELSE <<Head(s)>> \o PrefixOf(Tail(s), cs)

\* s without its first n characters
Drop(s, n) == SubSeq(s, n + 1, Len(s))

\* dateRegex.FindStringSubmatch(line) for
\* ^(\d{4})[/-](\d{1,2})[/-](\d{1,2})(?:\s+(.*))?$ : [ok, year, month, day, desc]
FileDateMatch(line) ==
    LET fits(a, b) ==
            /\ Len(line) >= 6 + a + b
            /\ AllDigits(SubSeq(line, 1, 4)) /\ line[5] \in DateSeparators
            /\ AllDigits(SubSeq(line, 6, 5 + a))
            /\ line[6 + a] \in DateSeparators
            /\ AllDigits(SubSeq(line, 7 + a, 6 + a + b))
            /\ Len(line) = 6 + a + b \/ line[7 + a + b] = " "
        widths == {ab \in (1..2) \X (1..2) : fits(ab[1], ab[2])}
    IN  IF widths = {}
        THEN [ok |-> FALSE, year |-> <<>>, month |-> <<>>, day |-> <<>>,
              desc |-> <<>>]
        ELSE LET ab == CHOOSE w \in widths : TRUE
             IN  [ok |-> TRUE,
                  year |-> SubSeq(line, 1, 4),
                  month |-> SubSeq(line, 6, 5 + ab[1]),
                  day |-> SubSeq(line, 7 + ab[1], 6 + ab[1] + ab[2]),
                  desc |-> TrimSpace(Drop(line, 6 + ab[1] + ab[2]))]

\* fmt.Sprintf("%02s", s)
ZeroPad2(s) == IF Len(s) < 2 THEN <<"0">> \o s ELSE s

\* time.Parse("2006-01-02", fmt.Sprintf("%s-%02s-%02s", year, month, day))
FileDate(m) ==
    ParseYMD(m.year \o <<"-">> \o ZeroPad2(m.month) \o <<"-">> \o ZeroPad2(m.day),
             "-")

\* accountRegex.FindStringSubmatch(line) for
\* ^\s+(account(?::\w+)?)\s+([\$US\-\d\.,\s]+) : [ok, account, amount]
AccountMatch(line, account) ==
    LET noMatch == [ok |-> FALSE, account |-> <<>>, amount |-> <<>>]
        indent == Len(PrefixOf(line, {" "}))
        rest0 == Drop(line, indent)
        rest1 == Drop(rest0, Len(account))
        sub == IF HasPrefix(rest1, ":") THEN PrefixOf(Tail(rest1), WordChars)
               ELSE <<>>
        withSub == sub # <<>> /\ HasPrefix(Drop(rest1, 1 + Len(sub)), " ")
        rest2 == IF withSub THEN Drop(rest1, 1 + Len(sub)) ELSE rest1
        gap == Len(PrefixOf(rest2, {" "}))
        amountText == PrefixOf(Drop(rest2, gap), AmountChars)
    IN  IF indent = 0 \/ Len(rest0) < Len(account)
           \/ SubSeq(rest0, 1, Len(account)) # account
        THEN noMatch
        ELSE IF gap = 0 \/ (amountText = <<>> /\ gap < 2) THEN noMatch
        ELSE [ok |-> TRUE,
              account |-> IF withSub THEN account \o <<":">> \o sub ELSE account,
              amount |-> IF amountText = <<>> THEN <<" ">> ELSE amountText]

fileFrame == <<amountVars, readerVars, reconcileVars, dateVars, sheetVars,
               entryVars, queryVars, requestVars, groupVars>>

InitLedgerFile ==
    /\ fileLines \in SeqsUpTo(FileLineSet, MaxFileLines)
    /\ fileIdx = 0 /\ currentDate = 0 /\ currentDescription = <<>>
    /\ entryStartLine = 0 /\ fileTxs = <<>>
    /\ filePc = "lines"
    /\ AmountIdle
    /\ ReaderIdle
    /\ ReconcileIdle
    /\ DateIdle
    /\ SheetIdle
    /\ EntryIdle
    /\ QueryIdle
    /\ RequestIdle
    /\ GroupIdle

\* one iteration of the line loop on a line that dateRegex matches
DateLine ==
    /\ filePc = "lines" /\ fileIdx < Len(fileLines)
    /\ FileDateMatch(fileLines[fileIdx + 1]).ok
    /\ \E matches \in {FileDateMatch(fileLines[fileIdx + 1])} :
       \E parsed \in {FileDate(matches)} :
          /\ currentDate' = IF parsed.ok THEN parsed.date ELSE currentDate
          /\ currentDescription' =
                IF parsed.ok THEN matches.desc ELSE currentDescription
    /\ entryStartLine' = fileIdx + 1
    /\ fileIdx' = fileIdx + 1
    /\ UNCHANGED <<fileLines, fileTxs, filePc, fileFrame>>

\* one iteration of the line loop on any other line; PostingLine keeps the
\* number of the line the transaction was read from
OtherLine ==
    /\ filePc = "lines" /\ fileIdx < Len(fileLines)
    /\ ~FileDateMatch(fileLines[fileIdx + 1]).ok
    /\ \E matches \in {AccountMatch(fileLines[fileIdx + 1], LedgerAccount)} :
          fileTxs' =
             IF ~IsZero(currentDate) /\ matches.ok
             THEN Append(fileTxs,
                         [Date |-> currentDate,
                          Description |-> currentDescription,
                          Account |-> matches.account,
                          Amount |-> parseLedgerAmount(TrimSpace(matches.amount)),
                          LineNumber |-> entryStartLine,
                          PostingLine |-> fileIdx + 1])
             ELSE fileTxs
    /\ IF TrimSpace(fileLines[fileIdx + 1]) = <<>> /\ ~IsZero(currentDate)
       THEN currentDate' = 0 /\ currentDescription' = <<>>
       ELSE UNCHANGED <<currentDate, currentDescription>>
    /\ fileIdx' = fileIdx + 1
    /\ UNCHANGED <<fileLines, entryStartLine, filePc, fileFrame>>

\* return transactions, nil
FileReturn ==
    /\ filePc = "lines" /\ fileIdx = Len(fileLines)
    /\ filePc' = "done"
    /\ UNCHANGED <<fileLines, fileIdx, currentDate, currentDescription,
                   entryStartLine, fileTxs, fileFrame>>

NextLedgerFile == DateLine \/ OtherLine \/ FileReturn

SpecLedgerFile == InitLedgerFile /\ [][NextLedgerFile]_vars

\* the date lines above line p
DateLinesAbove(p) == {i \in 1..(p - 1) : FileDateMatch(fileLines[i]).ok}

\* the nearest date line above line p
NearestDateLine(p) ==
    CHOOSE i \in DateLinesAbove(p) : \A j \in DateLinesAbove(p) : j <= i

IsBlank(line) == TrimSpace(line) = <<>>

\* C27: every transaction ParseLedgerTransactions returns carries the date and
\* the description of the nearest date line above its posting line, that date
\* is a day of the calendar, and no blank line lies between the two.
C27_DateOfNearestDateLine ==
    filePc = "done" =>
        \A t \in 1..Len(fileTxs) :
            /\ DateLinesAbove(fileTxs[t].PostingLine) # {}
            /\ LET n == NearestDateLine(fileTxs[t].PostingLine)
                   m == FileDateMatch(fileLines[n])
               IN  /\ FileDate(m).ok
                   /\ fileTxs[t].Date = FileDate(m).date
                   /\ fileTxs[t].Description = m.desc
                   /\ \A i \in (n + 1)..(fileTxs[t].PostingLine - 1) :
                         ~IsBlank(fileLines[i])

-----------------------------------------------------------------------------
(* the status list of the bank transactions (Spec, part_004)               *)

\* C28: for every matched bank transaction at index i, AllBankTransactions[i]
\* reports the type, the score and the ledger transaction of the match that
\* consumed transaction i, and no ledger transaction is referenced by two
\* entries of AllBankTransactions.
C28_StatusOfOwnMatch ==
    (Done /\ variant = "part_004") =>
        /\ \A i \in BankIndices :
              i \in matchedBank =>
                 \E k \in MatchesOfBank(i) :
                    /\ result.AllBankTransactions[i].MatchType =
                          result.Matches[k].MatchType
                    /\ result.AllBankTransactions[i].MatchScore =
                          result.Matches[k].MatchScore
                    /\ result.AllBankTransactions[i].LedgerTransaction =
                          result.Matches[k].ledger
        /\ \A i \in BankIndices, j \in BankIndices :
              (i # j /\ result.AllBankTransactions[i].LedgerTransaction # 0)
                 => result.AllBankTransactions[i].LedgerTransaction #
                    result.AllBankTransactions[j].LedgerTransaction

-----------------------------------------------------------------------------
(* the entries as a function of the transactions and mappings (SpecEntries) *)

\* the entries with the groups in the order their keys were first seen, one
\* of the orders the loop over the groups may take
EntriesInKeyOrder ==
    LET mappings == LoadAccountMappings(configFile).DescriptionMappings
        r == GroupLoop(CounterAccounts(mappings, unmatchedTransactions),
                       unmatchedTransactions, 1, <<>>, <<>>)
    IN  [q \in 1..Len(r.ungrouped) |->
            UngroupedEntry(unmatchedTransactions, r.ungrouped[q])]
        \o [q \in 1..Len(r.groups) |->
            GroupEntry(unmatchedTransactions, r.groups[q])]

\* C29: GenerateLedgerEntries is deterministic: the entries it returns, and
\* their order, are fixed by the transaction list and the account mappings,
\* so every call returns what the call taking the groups in the order of
\* their first transactions returns.
C29_EntriesFixedByInputs ==
    [][entriesPc = "call" => entries' = EntriesInKeyOrder]_vars

\* C30: in every entry the counter-account line names the account that
\* GetAccountForDescription resolved for the transactions of the entry, also
\* when the name of that account contains "Unknown".
C30_CounterLineIsResolvedAccount ==
    entriesPc = "done" =>
        \A e \in 1..Len(entries) :
            \A q \in 1..Len(entries[e].postings) :
                entries[e].counter = ResolvedAccount(entries[e].postings[q].index)

====
